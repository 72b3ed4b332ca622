------------------------ MODULE OffchainWallet_proofs ------------------------
(***************************************************************************)
(* Proofs about the wallet's calls, for any number of them, any amounts    *)
(* and any limit of dust: the coins conserve value, the payments take the  *)
(* coins that expire first, a call moves what it was asked to at once and  *)
(* at most once, which is the specification Transfer, and the history the  *)
(* wallet infers from its coins adds up to its balance.                    *)
(***************************************************************************)
EXTENDS OffchainWallet, Algorithms_proofs

-----------------------------------------------------------------------------
(* Coins. *)

\* Coins of the wallet are coins in the sense of the lemmas about values.
LEMMA WalletCoins ==
    ASSUME TypeOK, CoinsKnown
    PROVE  IsCoins(vtxos) /\ IsCoins(boarding)
BY DEF TypeOK, CoinsKnown, IsCoins, VtxoType, UtxoType

\* The coins that count, swept or not, are the unspent ones.
LEMMA ValueLive ==
    Spendable \cup Recoverable = {v \in vtxos : IsSpendable(v)}
BY DEF Spendable, Recoverable

\* What paying marks of a vtxo.
LEMMA PaidType ==
    ASSUME NEW v \in VtxoType, NEW txid \in TxIds
    PROVE  LET p == [v EXCEPT !.arkTxId = txid] IN
           p \in VtxoType /\ SameOutpoint(p, v) /\ ~IsSpendable(p)
BY DEF VtxoType, SpentBy, TxIds, SameOutpoint, IsSpendable

\* What settling marks of a coin.
LEMMA SettledType ==
    ASSUME NEW txid \in TxIds
    PROVE  /\ \A v \in VtxoType : LET p == [v EXCEPT !.settledBy = txid] IN
                p \in VtxoType /\ SameOutpoint(p, v) /\ ~IsSpendable(p)
           /\ \A u \in UtxoType : LET p == [u EXCEPT !.settledBy = txid] IN
                p \in UtxoType /\ p.txid = u.txid /\ p.settledBy # 0
BY DEF VtxoType, UtxoType, SpentBy, TxIds, SameOutpoint, IsSpendable

\* A function maps finitely many coins to finitely many.
LEMMA ImageFinite ==
    ASSUME NEW S, IsFiniteSet(S), NEW f
    PROVE  IsFiniteSet({f[x] : x \in S})
<1> DEFINE X == {T \in SUBSET S : IsFiniteSet({f[x] : x \in T})}
<1>1. {} \in X
  <2>1. {f[x] : x \in {}} = {}
    OBVIOUS
  <2> QED
    BY <2>1, FS_EmptySet
<1>2. \A T \in SUBSET S : \A a \in S \ T : T \in X => T \cup {a} \in X
  <2> TAKE T \in SUBSET S
  <2> TAKE a \in S \ T
  <2> DEFINE D == {f[x] : x \in T}
  <2>1. {f[x] : x \in T \cup {a}} = D \cup {f[a]}
    OBVIOUS
  <2>2. T \in X => IsFiniteSet(D)
    OBVIOUS
  <2>3. IsFiniteSet(D) => IsFiniteSet(D \cup {f[a]})
    <3> HIDE DEF D
    <3> QED BY FS_AddElement
  <2> QED
    BY <2>1, <2>2, <2>3
<1>3. S \in X
  <2> HIDE DEF X
  <2> QED BY <1>1, <1>2, SetInduction
<1> QED
  BY <1>3

\* V is the vtxos of the wallet after those of I were spent and N were made.
VtxosAre(V, I, N) ==
    /\ V \subseteq VtxoType /\ IsFiniteSet(V)
    /\ \A v, w \in V : SameOutpoint(v, w) => v = w
    /\ \A v \in vtxos : \E w \in V : SameOutpoint(v, w)
    /\ \A v \in V : v.txid <= txs \/ v \in N
    /\ {v \in V : IsSpendable(v)} = ({v \in vtxos : IsSpendable(v)} \ I) \cup N
    /\ {v \in vtxos : IsSpendable(v)} \cap N = {}

\* What vtxos become when those of I are marked spent and those of N are new.
LEMMA CoinsMove ==
    ASSUME TypeOK, CoinsKnown,
           NEW I \in SUBSET {v \in vtxos : IsSpendable(v)},
           NEW f, \A v \in I : f[v] \in VtxoType /\ SameOutpoint(f[v], v) /\ ~IsSpendable(f[v]),
           NEW N \in SUBSET VtxoType, IsFiniteSet(N),
           \A n \in N : n.txid > txs /\ IsSpendable(n),
           \A m, n \in N : SameOutpoint(m, n) => m = n
    PROVE  VtxosAre((vtxos \ I) \cup {f[v] : v \in I} \cup N, I, N)
<1> DEFINE P == {f[v] : v \in I}
           V == (vtxos \ I) \cup P \cup N
           live == {v \in vtxos : IsSpendable(v)}
<1>0. /\ vtxos \subseteq VtxoType /\ IsFiniteSet(vtxos) /\ txs \in Nat
      /\ \A v \in vtxos : v.txid <= txs
      /\ \A v, w \in vtxos : SameOutpoint(v, w) => v = w
      /\ I \subseteq vtxos
  BY OffchainAssumption DEF TypeOK, CoinsKnown
<1>1. IsFiniteSet(I) /\ IsFiniteSet(vtxos \ I)
  BY <1>0, FS_Subset
<1>2. IsFiniteSet(V)
  <2>1. IsFiniteSet(P)
    BY <1>1, ImageFinite
  <2> HIDE DEF P
  <2> QED
    BY <1>1, <2>1, FS_Union
<1>3. P \subseteq VtxoType /\ V \subseteq VtxoType
  BY <1>0
<1>4. \A v \in VtxoType : v.txid \in Nat
  BY OffchainAssumption DEF VtxoType, TxIds
<1>5. \A n \in N : n.txid \in Nat /\ ~(n.txid <= txs)
  BY <1>0, <1>4
<1>6. \A p \in P : \E v \in I : SameOutpoint(p, v) /\ p.txid <= txs /\ ~IsSpendable(p) /\ p = f[v]
  BY <1>0 DEF SameOutpoint
<1>7. \A v \in V : v.txid <= txs \/ v \in N
  BY <1>0, <1>6
<1>8. ASSUME NEW v \in V, NEW w \in V, SameOutpoint(v, w)
      PROVE  v = w
  <2>1. v.txid = w.txid /\ SameOutpoint(w, v)
    BY <1>8 DEF SameOutpoint
  <2>2. v \in N <=> w \in N
    BY <1>5, <1>7, <1>8, <2>1
  <2>3. CASE v \in N
    BY <1>8, <2>2, <2>3
  <2>4. CASE v \notin N
    <3>1. PICK a \in vtxos : SameOutpoint(v, a) /\ (v \in P => v = f[a] /\ a \in I) /\ (v \notin P => v = a /\ a \notin I)
      BY <1>0, <1>6, <1>8, <2>4 DEF SameOutpoint
    <3>2. PICK b \in vtxos : SameOutpoint(w, b) /\ (w \in P => w = f[b] /\ b \in I) /\ (w \notin P => w = b /\ b \notin I)
      BY <1>0, <1>6, <1>8, <2>2, <2>4 DEF SameOutpoint
    <3>3. SameOutpoint(a, b)
      BY <1>8, <3>1, <3>2 DEF SameOutpoint
    <3>4. a = b
      BY <1>0, <3>3
    <3> QED
      BY <3>1, <3>2, <3>4
  <2> QED
    BY <2>3, <2>4
<1>9. \A v \in vtxos : \E w \in V : SameOutpoint(v, w)
  <2> TAKE v \in vtxos
  <2>1. CASE v \in I
    <3>1. f[v] \in V /\ SameOutpoint(v, f[v])
      BY <2>1 DEF SameOutpoint
    <3> QED
      BY <3>1
  <2>2. CASE v \notin I
    <3>1. v \in V /\ SameOutpoint(v, v)
      BY <2>2 DEF SameOutpoint
    <3> QED
      BY <3>1
  <2> QED
    BY <2>1, <2>2
<1>10. {v \in V : IsSpendable(v)} = (live \ I) \cup N
  BY <1>6
<1>11. live \cap N = {}
  BY <1>0, <1>5
<1> QED
  BY <1>2, <1>3, <1>7, <1>8, <1>9, <1>10, <1>11, Zenon DEF VtxosAre

\* What coins L are worth when I are taken out and N added.
WorthMoves(L, I, N) ==
    /\ Value((L \ I) \cup N) = Value(L) - Value(I) + Value(N)
    /\ Value(I) \in Nat /\ Value(L) \in Nat /\ Value(N) \in Nat
    /\ Value(I) <= Value(L)

\* A part taken out is subtracted and new coins are added.
LEMMA ValueMoves ==
    ASSUME NEW L, IsCoins(L), NEW I \in SUBSET L, NEW N, IsCoins(N), L \cap N = {}
    PROVE  WorthMoves(L, I, N)
<1>1. IsCoins(L \ I) /\ IsCoins(I) /\ (L \ I) \cap N = {}
  BY CoinsSubset
<1>2. Value(L) = Value(I) + Value(L \ I)
  BY ValueSplit
<1>3. Value((L \ I) \cup N) = Value(L \ I) + Value(N)
  BY <1>1, ValueUnion
<1>4. Value(I) \in Nat /\ Value(L) \in Nat /\ Value(N) \in Nat /\ Value(L \ I) \in Nat
  BY <1>1, ValueNat
<1> QED
  BY <1>2, <1>3, <1>4 DEF WorthMoves

\* One coin is worth its value.
LEMMA ValueOne ==
    ASSUME NEW a, a.value \in Nat
    PROVE  Value({a}) = a.value
<1> DEFINE S == {a}
           f == [c \in S |-> c.value]
<1>1. IsCoins(S) /\ S \in SUBSET S /\ f[a] \in Int /\ f[a] = a.value
  <2>1. IsFiniteSet(S)
    BY FS_Singleton
  <2>2. \A c \in S : c.value \in Nat
    OBVIOUS
  <2> QED
    BY <2>1, <2>2 DEF IsCoins
<1>2. SumFunctionOnSet(f, S) = f[a]
  <2> HIDE DEF f
  <2> QED
    BY <1>1, SumOne
<1>3. Value(S) = SumFunctionOnSet(f, S)
  <2> HIDE DEF S
  <2> QED
    BY <1>1, ValueIn
<1> QED
  BY <1>1, <1>2, <1>3

\* Coins that are marked, each in its own way, keep their value.
LEMMA ValueMarked ==
    ASSUME NEW C, IsCoins(C), NEW f,
           \A c \in C : f[c].value = c.value,
           \A c, d \in C : f[c] = f[d] => c = d
    PROVE  Value({f[c] : c \in C}) = Value(C)
<1> DEFINE D == {f[c] : c \in C}
           g == [c \in C |-> c.value]
           h == [d \in D |-> d.value]
<1>1. IsFiniteSet(C) /\ IsFiniteSet(D) /\ \A c \in C : c.value \in Nat
  BY ImageFinite DEF IsCoins
<1>2. IsCoins(D)
  <2>1. \A d \in D : d.value \in Nat
    BY <1>1
  <2> HIDE DEF D
  <2> QED
    BY <1>1, <2>1 DEF IsCoins
<1>3. \A c \in C : f[c] \in D /\ g[c] \in Int /\ h[f[c]] = g[c]
  BY <1>1
<1>4. \A d \in D : (\A c \in C : f[c] # d) => h[d] = 0
  OBVIOUS
<1>5. Value(C) = SumFunctionOnSet(g, C) /\ Value(D) = SumFunctionOnSet(h, D)
  <2>1. Value(C) = SumFunctionOnSet(g, C)
    BY ValueIn
  <2> HIDE DEF D
  <2>2. Value(D) = SumFunctionOnSet(h, D)
    BY <1>2, ValueIn
  <2> QED
    BY <2>1, <2>2
<1> HIDE DEF D, g, h
<1>6. SumFunctionOnSet(g, C) = SumFunctionOnSet(h, D)
  BY <1>1, <1>3, <1>4, SumKeys
<1> QED
  BY <1>5, <1>6 DEF D

-----------------------------------------------------------------------------
(* What each step does to the calls. *)

\* Call c goes on and keeps what it took and asked for.
Moves(c, pc) ==
    /\ call' \in [Call -> CallType]
    /\ \A d \in Call : d # c => call'[d] = call[d]
    /\ call'[c].pc = pc
    /\ call'[c].toSelf = call[c].toSelf /\ call'[c].listed = call[c].listed
    /\ call'[c].inputs = call[c].inputs /\ call'[c].utxos = call[c].utxos
    /\ call'[c].outputs = call[c].outputs

\* What changing a call's program counter leaves alone.
LEMMA GoesMoves ==
    ASSUME TypeOK, NEW c \in Call, NEW pc \in {"submitted", "returned", "threw"}, Goes(c, pc)
    PROVE  Moves(c, pc)
BY DEF TypeOK, CallType, Goes, Moves

\* An idle call lists the coins and asks for something.
Asks(c, r) ==
    /\ call[c].pc = "idle" /\ r \in CallType /\ call' = [call EXCEPT ![c] = r]
    /\ r.inputs \subseteq {v \in vtxos : IsSpendable(v)} /\ r.utxos \subseteq Unspent(boarding)
    /\ Value(r.inputs) + Value(r.utxos) = r.outputs.out + r.outputs.vtxo + r.outputs.utxo
    /\ \/ r.pc = "settling" /\ ~r.toSelf /\ (r.utxos = {} \/ r.outputs.out = 0)
       \/ /\ r.pc = "signing" /\ r.utxos = {} /\ r.outputs.utxo = 0
          /\ \A v \in r.inputs, w \in r.listed \ r.inputs : ~Expires(w, v)
          /\ \E v \in r.inputs :
                /\ \A w \in r.inputs : ~Expires(v, w)
                /\ Value(r.inputs \ {v}) < r.outputs.out

CoinsStay == UNCHANGED <<vtxos, boarding, moved, txs, batch, unusual>>

\* The coins that a call may list.
LEMMA Listed ==
    ASSUME TypeOK, CoinsKnown
    PROVE  /\ IsCoins(Spendable) /\ IsCoins(Recoverable) /\ IsCoins(Unspent(boarding))
           /\ IsCoins(Spendable \cup Recoverable)
           /\ Spendable \cup Recoverable \subseteq {v \in vtxos : IsSpendable(v)}
           /\ {v \in vtxos : IsSpendable(v)} \in SUBSET VtxoType
           /\ Unspent(boarding) \in SUBSET UtxoType
<1>1. Spendable \in SUBSET vtxos /\ Recoverable \in SUBSET vtxos /\ Unspent(boarding) \in SUBSET boarding
  BY DEF Spendable, Recoverable, Unspent
<1>2. IsCoins(Spendable) /\ IsCoins(Recoverable) /\ IsCoins(Unspent(boarding))
  BY <1>1, WalletCoins, CoinsSubset
<1>3. IsCoins(Spendable \cup Recoverable)
  BY <1>2, CoinsUnion
<1> QED
  BY <1>1, <1>2, <1>3 DEF TypeOK, Spendable, Recoverable

\* A payment that finds enough coins takes the ones that expire first.
LEMMA SendShape ==
    ASSUME TypeOK, CoinsKnown, NEW c \in Call, SendBitcoin(c)
    PROVE  /\ (call[c].pc = "idle" /\ Throw(c)) \/ \E r : Asks(c, r)
           /\ CoinsStay /\ UNCHANGED <<reserved, faults>>
<1>1. call[c].pc = "idle" /\ CoinsStay /\ UNCHANGED <<reserved, faults>>
  BY DEF SendBitcoin, CoinsStay
<1>2. PICK amount \in Amounts, toSelf \in BOOLEAN :
      \E coins \in SelectVirtualCoins(Spendable, amount) :
          IF Value(coins) < amount THEN Throw(c)
          ELSE call' = [call EXCEPT ![c] =
                  [pc |-> "signing", toSelf |-> toSelf, listed |-> Spendable,
                   inputs |-> coins, utxos |-> {}, outputs |->
                     [out |-> amount, vtxo |-> ChangeOf(coins, amount), utxo |-> 0]]]
  BY DEF SendBitcoin
<1>3. PICK coins \in SelectVirtualCoins(Spendable, amount) :
          IF Value(coins) < amount THEN Throw(c)
          ELSE call' = [call EXCEPT ![c] =
                  [pc |-> "signing", toSelf |-> toSelf, listed |-> Spendable,
                   inputs |-> coins, utxos |-> {}, outputs |->
                     [out |-> amount, vtxo |-> ChangeOf(coins, amount), utxo |-> 0]]]
  BY <1>2
<1>4. CASE Value(coins) < amount
  BY <1>1, <1>3, <1>4
<1>5. CASE ~(Value(coins) < amount)
  <2> DEFINE r == [pc |-> "signing", toSelf |-> toSelf, listed |-> Spendable,
                   inputs |-> coins, utxos |-> {}, outputs |->
                     [out |-> amount, vtxo |-> ChangeOf(coins, amount), utxo |-> 0]]
  <2>1. /\ coins \in SUBSET Spendable
        /\ \A a \in coins, b \in Spendable \ coins : ~SoonerFirst(b, a)
        /\ coins # {} => \E last \in coins :
              /\ \A a \in coins : ~SoonerFirst(last, a)
              /\ ~(Value(coins \ {last}) >= amount)
    BY SelectVirtualCoinsIs
  <2>2. IsCoins(coins) /\ Value(coins) \in Nat /\ amount \in Nat \ {0} /\ Value({}) = 0
    BY <2>1, Listed, CoinsSubset, ValueNat, ValueEmpty, OffchainAssumption
  <2>3. coins # {}
    BY <1>5, <2>2
  <2>4. \A a \in coins : Value(coins \ {a}) \in Nat
    BY <2>2, CoinsSubset, ValueNat
  <2>5. \E v \in coins : (\A w \in coins : ~Expires(v, w)) /\ Value(coins \ {v}) < amount
    BY <2>1, <2>2, <2>3, <2>4 DEF SoonerFirst
  <2>6. \A v \in coins, w \in Spendable \ coins : ~Expires(w, v)
    BY <2>1 DEF SoonerFirst
  <2>7. ChangeOf(coins, amount) \in Nat /\ amount + ChangeOf(coins, amount) + 0 = Value(coins) + 0
    BY <1>5, <2>2 DEF ChangeOf
  <2>8. coins \subseteq {v \in vtxos : IsSpendable(v)} /\ coins \in SUBSET VtxoType
        /\ Spendable \in SUBSET VtxoType
    BY <2>1, Listed
  <2>9. r \in CallType /\ r.outputs.out = amount /\ r.outputs.vtxo = ChangeOf(coins, amount)
        /\ r.outputs.utxo = 0 /\ r.pc = "signing" /\ r.utxos = {} /\ r.inputs = coins
        /\ r.listed = Spendable
    BY <2>2, <2>7, <2>8 DEF CallType, Outputs
  <2>10. call' = [call EXCEPT ![c] = r]
    BY <1>3, <1>5
  <2>11. Value(r.inputs) + Value(r.utxos) = r.outputs.out + r.outputs.vtxo + r.outputs.utxo
    BY <2>2, <2>7, <2>9
  <2> HIDE DEF r
  <2>12. Asks(c, r)
    BY <1>1, <2>5, <2>6, <2>8, <2>9, <2>10, <2>11 DEF Asks
  <2> QED
    BY <1>1, <2>12
<1> QED
  BY <1>4, <1>5

\* A call of settle whose outputs are worth what its inputs are.
LEMMA SettleAsks ==
    ASSUME TypeOK, CoinsKnown, NEW c \in Call, call[c].pc = "idle",
           NEW utxos \in SUBSET Unspent(boarding),
           NEW coins \in SUBSET {v \in vtxos : IsSpendable(v)},
           NEW outputs \in Outputs, SettleWith(c, utxos, coins, outputs),
           Value(coins) + Value(utxos) = outputs.out + outputs.vtxo + outputs.utxo,
           utxos = {} \/ outputs.out = 0
    PROVE  \E r : Asks(c, r)
<1> DEFINE r == [pc |-> "settling", toSelf |-> FALSE, listed |-> {}, inputs |-> coins,
                 utxos |-> utxos, outputs |-> outputs]
<1>1. coins \in SUBSET VtxoType /\ utxos \in SUBSET UtxoType
  BY Listed
<1>2. r \in CallType /\ r.pc = "settling" /\ ~r.toSelf /\ r.inputs = coins /\ r.utxos = utxos
      /\ r.outputs = outputs
  BY <1>1 DEF CallType
<1>3. call' = [call EXCEPT ![c] = r]
  BY DEF SettleWith
<1> HIDE DEF r
<1>4. Asks(c, r)
  BY <1>2, <1>3 DEF Asks
<1> QED
  BY <1>4

\* settle of everything, onboard and offboard ask for what their inputs are worth.
LEMMA SettleShape ==
    ASSUME TypeOK, CoinsKnown, NEW c \in Call, SettleAll(c) \/ Onboard(c) \/ Offboard(c)
    PROVE  /\ (call[c].pc = "idle" /\ Throw(c)) \/ \E r : Asks(c, r)
           /\ CoinsStay /\ UNCHANGED <<reserved, faults>>
<1>0. call[c].pc = "idle" /\ CoinsStay /\ UNCHANGED <<reserved, faults>>
  BY DEF SettleAll, Onboard, Offboard, CoinsStay
<1> DEFINE coins == Spendable \cup Recoverable
           utxos == Unspent(boarding)
<1>1. /\ coins \in SUBSET {v \in vtxos : IsSpendable(v)} /\ utxos \in SUBSET Unspent(boarding)
      /\ {} \in SUBSET {v \in vtxos : IsSpendable(v)} /\ {} \in SUBSET Unspent(boarding)
  BY Listed
<1>2. Value(coins) \in Nat /\ Value(utxos) \in Nat /\ Value({}) = 0
  BY Listed, ValueNat, ValueEmpty
<1>3. Amounts \subseteq Nat
  BY OffchainAssumption
<1>4. CASE SettleAll(c)
  <2> DEFINE o == [out |-> 0, vtxo |-> Value(coins) + Value(utxos), utxo |-> 0]
  <2>1. Throw(c) \/ SettleWith(c, utxos, coins, o)
    BY <1>4 DEF SettleAll
  <2>2. o \in Outputs /\ Value(coins) + Value(utxos) = o.out + o.vtxo + o.utxo /\ o.out = 0
    BY <1>2 DEF Outputs
  <2> HIDE DEF o, coins, utxos
  <2> QED
    BY <1>0, <1>1, <2>1, <2>2, SettleAsks
<1>5. CASE Onboard(c)
  <2> DEFINE total == Value(utxos)
  <2>1. PICK amount \in Amounts \cup {total} :
          IF Exceeds(amount, total) THEN Throw(c)
          ELSE SettleWith(c, utxos, {}, [out |-> 0, vtxo |-> amount, utxo |-> total - amount])
    BY <1>5 DEF Onboard
  <2> DEFINE o == [out |-> 0, vtxo |-> amount, utxo |-> total - amount]
  <2>2. amount \in Nat
    BY <1>2, <1>3
  <2>3. CASE Exceeds(amount, total)
    BY <1>0, <2>1, <2>3
  <2>4. CASE ~Exceeds(amount, total)
    <3>1. amount <= total
      BY <1>2, <2>2, <2>4 DEF Exceeds
    <3>2. o \in Outputs /\ Value({}) + Value(utxos) = o.out + o.vtxo + o.utxo /\ o.out = 0
      BY <1>2, <2>2, <3>1 DEF Outputs
    <3>3. SettleWith(c, utxos, {}, o)
      BY <2>1, <2>4
    <3> HIDE DEF o, utxos
    <3> QED
      BY <1>0, <1>1, <3>2, <3>3, SettleAsks
  <2> QED
    BY <2>3, <2>4
<1>6. CASE Offboard(c)
  <2> DEFINE total == Value(coins)
  <2>1. PICK amount \in Amounts \cup {total} :
          IF Exceeds(amount, total) THEN Throw(c)
          ELSE SettleWith(c, {}, coins, [out |-> amount, vtxo |-> total - amount, utxo |-> 0])
    BY <1>6 DEF Offboard
  <2> DEFINE o == [out |-> amount, vtxo |-> total - amount, utxo |-> 0]
  <2>2. amount \in Nat
    BY <1>2, <1>3
  <2>3. CASE Exceeds(amount, total)
    BY <1>0, <2>1, <2>3
  <2>4. CASE ~Exceeds(amount, total)
    <3>1. amount <= total
      BY <1>2, <2>2, <2>4 DEF Exceeds
    <3>2. o \in Outputs /\ Value(coins) + Value({}) = o.out + o.vtxo + o.utxo
      BY <1>2, <2>2, <3>1 DEF Outputs
    <3>3. SettleWith(c, {}, coins, o)
      BY <2>1, <2>4
    <3> HIDE DEF o, coins
    <3> QED
      BY <1>0, <1>1, <3>2, <3>3, SettleAsks
  <2> QED
    BY <2>3, <2>4
<1> QED
  BY <1>4, <1>5, <1>6

-----------------------------------------------------------------------------
(* The steps of a call alone. *)

\* A call asks: what it holds was listed, and it has moved nothing.
LEMMA IInvAsks ==
    ASSUME IInv, NEW c \in Call, NEW r, Asks(c, r), CoinsStay, UNCHANGED <<reserved, faults>>
    PROVE  IInv'
<1>0. /\ TypeOK /\ CoinsKnown /\ CallsBalance /\ InputsReserved /\ SoonestAreSpent
      /\ call[c].pc = "idle" /\ r \in CallType
      /\ call' = [call EXCEPT ![c] = r] /\ r.pc \in {"signing", "settling"}
      /\ UNCHANGED <<vtxos, boarding, moved, txs, batch, unusual, reserved, faults>>
  BY DEF IInv, Asks, CoinsStay
<1>1. call' \in [Call -> CallType] /\ call'[c] = r /\ \A d \in Call : d # c => call'[d] = call[d]
  BY <1>0 DEF TypeOK
<1>2. TypeOK'
  <2>1. \A v \in r.inputs : \E w \in vtxos : SameOutpoint(v, w)
    BY DEF Asks, SameOutpoint
  <2> QED
    BY <1>0, <1>1, <2>1 DEF TypeOK
<1>3. CoinsKnown'
  BY <1>0 DEF CoinsKnown
<1>4. CallsBalance'
  <2>1. IsFiniteSet(r.inputs) /\ IsFiniteSet(r.utxos)
    <3>1. r.inputs \in SUBSET vtxos /\ r.utxos \in SUBSET boarding
      BY DEF Asks, Unspent
    <3> QED
      BY <1>0, <3>1, FS_Subset DEF CoinsKnown
  <2>2. c \notin moved
    BY <1>0 DEF CallsBalance
  <2>3. /\ \A v \in r.inputs : IsSpendable(v)
        /\ \A u \in r.utxos : u.settledBy = 0
        /\ Value(r.inputs) + Value(r.utxos) = r.outputs.out + r.outputs.vtxo + r.outputs.utxo
        /\ r.pc = "signing" => r.utxos = {} /\ r.outputs.utxo = 0
        /\ r.pc = "settling" => ~r.toSelf /\ (r.utxos = {} \/ r.outputs.out = 0)
    BY DEF Asks, Unspent
  <2> QED
    BY <1>0, <1>1, <2>1, <2>2, <2>3 DEF CallsBalance
<1>5. InputsReserved'
  BY <1>0, <1>1 DEF InputsReserved
<1>6. SoonestAreSpent'
  BY <1>0, <1>1 DEF SoonestAreSpent, Asks
<1> QED
  BY <1>2, <1>3, <1>4, <1>5, <1>6 DEF IInv

\* A call ends, or submits coins that are free, and the coins stay.
LEMMA IInvGoes ==
    ASSUME IInv, NEW c \in Call, NEW pc \in {"submitted", "threw"}, Goes(c, pc), CoinsStay,
           faults' \in 0 .. MaxFaults,
           \/ reserved' = reserved /\ pc = "threw"
           \/ /\ reserved' = reserved \cup call[c].inputs /\ call[c].inputs \subseteq vtxos \ reserved
              /\ call[c].pc = "signing"
    PROVE  IInv'
<1>0. /\ TypeOK /\ CoinsKnown /\ CallsBalance /\ InputsReserved /\ SoonestAreSpent
      /\ UNCHANGED <<vtxos, boarding, moved, txs, batch, unusual>>
  BY DEF IInv, CoinsStay
<1>1. Moves(c, pc)
  BY <1>0, GoesMoves
<1>2. reserved' \subseteq {v \in vtxos : IsSpendable(v)} /\ reserved \subseteq reserved'
  BY <1>0 DEF TypeOK, CallsBalance
<1>3. TypeOK'
  BY <1>0, <1>1, <1>2 DEF TypeOK, Moves
<1>4. CoinsKnown'
  BY <1>0 DEF CoinsKnown
<1>5. CallsBalance'
  BY <1>0, <1>1 DEF CallsBalance, Moves
<1>6. InputsReserved'
  BY <1>0, <1>1, <1>2 DEF InputsReserved, Moves
<1>7. SoonestAreSpent'
  BY <1>0, <1>1 DEF SoonestAreSpent, Moves
<1> QED
  BY <1>3, <1>4, <1>5, <1>6, <1>7 DEF IInv

-----------------------------------------------------------------------------
(* The steps that move coins. *)

\* B is the boarding utxos after those of U were settled and N were made.
BoardingIs(B, U, N) ==
    /\ B \subseteq UtxoType /\ IsFiniteSet(B)
    /\ \A u \in B : u.txid <= txs \/ u \in N
    /\ Unspent(B) = (Unspent(boarding) \ U) \cup N
    /\ Unspent(boarding) \cap N = {}

\* What boarding utxos become when those of U are marked, as those of P, and those
\* of N are new.
LEMMA BoardingMoves ==
    ASSUME TypeOK, CoinsKnown,
           NEW U \in SUBSET Unspent(boarding),
           NEW P \in SUBSET UtxoType, IsFiniteSet(P),
           \A p \in P : p.settledBy # 0 /\ p.txid <= txs,
           NEW N \in SUBSET UtxoType, IsFiniteSet(N),
           \A n \in N : n.settledBy = 0 /\ \A u \in boarding : n.txid # u.txid
    PROVE  BoardingIs((boarding \ U) \cup P \cup N, U, N)
<1> DEFINE B == (boarding \ U) \cup P \cup N
<1>0. /\ boarding \subseteq UtxoType /\ IsFiniteSet(boarding) /\ U \subseteq boarding
      /\ \A u \in boarding : u.txid <= txs
      /\ txs \in Nat /\ Unspent(boarding) \subseteq boarding
  BY OffchainAssumption DEF TypeOK, CoinsKnown, Unspent
<1>1. IsFiniteSet(U) /\ IsFiniteSet(boarding \ U)
  BY <1>0, FS_Subset
<1>2. IsFiniteSet(B)
  BY <1>1, FS_Union
<1>3. \A p \in P : p \in UtxoType /\ p.txid <= txs /\ p.settledBy # 0
  OBVIOUS
<1>4. \A n \in N : n \notin boarding
  OBVIOUS
<1>5. B \subseteq UtxoType /\ \A u \in B : u.txid <= txs \/ u \in N
  BY <1>0, <1>3
<1>6. Unspent(B) = (Unspent(boarding) \ U) \cup N
  BY <1>3 DEF Unspent
<1>7. Unspent(boarding) \cap N = {}
  BY <1>0, <1>4
<1> QED
  BY <1>2, <1>5, <1>6, <1>7, Zenon DEF BoardingIs

\* A call's transaction takes effect: the coins it marks are live and nobody
\* else's, what it makes is new, and the invariant holds of what comes after.
LEMMA IInvMoves ==
    ASSUME IInv, NEW c \in Call, NEW pc \in {"returned", "threw"}, Goes(c, pc),
           call[c].inputs \subseteq vtxos,
           \A d \in Call \ {c} : call[d].pc = "submitted" => call[c].inputs \cap call[d].inputs = {},
           reserved' = reserved \ call[c].inputs, moved' = moved \cup {c},
           txs' \in 0 .. MaxTx, txs' >= txs, faults' \in 0 .. MaxFaults, unusual' \in BOOLEAN,
           batch' \in SpentBy, batch' <= txs',
           NEW f, \A v \in call[c].inputs :
                     f[v] \in VtxoType /\ SameOutpoint(f[v], v) /\ ~IsSpendable(f[v]),
           NEW N \in SUBSET VtxoType, IsFiniteSet(N),
           \A n \in N : n.txid > txs /\ n.txid <= txs' /\ IsSpendable(n),
           \A m, n \in N : SameOutpoint(m, n) => m = n,
           vtxos' = (vtxos \ call[c].inputs) \cup {f[v] : v \in call[c].inputs} \cup N,
           boarding' \subseteq UtxoType, IsFiniteSet(boarding'),
           \A u \in boarding' : u.txid <= txs'
    PROVE  IInv' /\ {v \in vtxos' : IsSpendable(v)}
                      = ({v \in vtxos : IsSpendable(v)} \ call[c].inputs) \cup N
<1> DEFINE live == {v \in vtxos : IsSpendable(v)}
           I == call[c].inputs
<1>0. /\ TypeOK /\ CoinsKnown /\ CallsBalance /\ InputsReserved /\ SoonestAreSpent
      /\ I \subseteq live
  BY DEF IInv, CallsBalance
<1>1. Moves(c, pc)
  BY <1>0, GoesMoves
<1>2. /\ vtxos' \subseteq VtxoType /\ IsFiniteSet(vtxos')
      /\ \A v, w \in vtxos' : SameOutpoint(v, w) => v = w
      /\ \A v \in vtxos : \E w \in vtxos' : SameOutpoint(v, w)
      /\ \A v \in vtxos' : v.txid <= txs \/ v \in N
      /\ {v \in vtxos' : IsSpendable(v)} = (live \ I) \cup N
  <2>1. /\ I \in SUBSET live /\ \A n \in N : n.txid > txs /\ IsSpendable(n)
        /\ \A v \in I : f[v] \in VtxoType /\ SameOutpoint(f[v], v) /\ ~IsSpendable(f[v])
        /\ vtxos' = (vtxos \ I) \cup {f[v] : v \in I} \cup N
    BY <1>0
  <2> HIDE DEF I
  <2>2. VtxosAre((vtxos \ I) \cup {f[v] : v \in I} \cup N, I, N)
    BY <1>0, <2>1, CoinsMove
  <2> QED
    BY <2>1, <2>2 DEF VtxosAre
<1>3. TypeOK'
  <2>1. \A d \in Call : call'[d].inputs = call[d].inputs
    BY <1>1 DEF Moves
  <2>2. \A d \in Call : \A v \in call'[d].inputs : \E w \in vtxos' : SameOutpoint(v, w)
    <3> TAKE d \in Call
    <3> TAKE v \in call'[d].inputs
    <3>1. PICK a \in vtxos : SameOutpoint(v, a)
      BY <1>0, <2>1 DEF TypeOK
    <3>2. PICK w \in vtxos' : SameOutpoint(a, w)
      BY <1>2
    <3> QED
      BY <3>1, <3>2 DEF SameOutpoint
  <2>3. reserved' \subseteq {v \in vtxos' : IsSpendable(v)}
    BY <1>0, <1>2 DEF TypeOK
  <2>4. call' \in [Call -> CallType] /\ moved' \subseteq Call
    BY <1>0, <1>1 DEF TypeOK, Moves
  <2> QED
    BY <1>2, <2>2, <2>3, <2>4 DEF TypeOK
<1>4. CoinsKnown'
  <2>1. txs \in Nat /\ txs' \in Nat /\ \A v \in vtxos' : v.txid \in Nat
    BY <1>0, <1>2, OffchainAssumption DEF TypeOK, VtxoType, TxIds
  <2>2. \A v \in vtxos' : v.txid <= txs'
    BY <1>2, <2>1
  <2> QED
    BY <1>2, <2>2 DEF CoinsKnown
<1>5. CallsBalance'
  BY <1>0, <1>1 DEF CallsBalance, Moves
<1>6. InputsReserved'
  BY <1>0, <1>1 DEF InputsReserved, Moves
<1>7. SoonestAreSpent'
  BY <1>0, <1>1 DEF SoonestAreSpent, Moves
<1> QED
  BY <1>2, <1>3, <1>4, <1>5, <1>6, <1>7 DEF IInv

\* Naturals have a least one among them.
LEMMA Least ==
    ASSUME NEW S, S \subseteq Nat, S # {}
    PROVE  Min(S) \in S
<1>1. PICK n \in S : \A m \in S : ~(<<m, n>> \in OpToRel(<, Nat))
  BY WFMin, NatLessThanWellFounded
<1>2. \A m \in S : m \in Nat
  OBVIOUS
<1>3. \A m \in S : ~(m < n)
  BY <1>1, <1>2 DEF OpToRel
<1>4. \A m \in S : n <= m
  BY <1>2, <1>3
<1> QED
  BY <1>4 DEF Min

\* The earliest of the known expiries is one of them.
LEMMA EarliestType ==
    ASSUME NEW C, C \subseteq VtxoType
    PROVE  Earliest(C) \in Expiries \cup {0}
<1> DEFINE known == {v.expiry : v \in C} \ {0}
<1>1. known \subseteq Expiries /\ known \subseteq Nat
  BY OffchainAssumption DEF VtxoType
<1>2. CASE known = {}
  BY <1>2 DEF Earliest
<1>3. CASE known # {}
  <2>1. Min(known) \in known
    <3> HIDE DEF known
    <3> QED
      BY <1>1, <1>3, Least
  <2> QED
    BY <1>1, <1>3, <2>1 DEF Earliest
<1> QED
  BY <1>2, <1>3

\* A new vtxo of the wallet.
LEMMA VtxoIs ==
    ASSUME NEW txid \in TxIds, NEW vout \in 0 .. 2, NEW value \in Nat \ {0},
           NEW state \in {"settled", "preconfirmed", "swept"},
           NEW commitments \in SUBSET TxIds, NEW expiry \in Expiries \cup {0}
    PROVE  LET v == Vtxo(txid, vout, value, state, commitments, expiry) IN
           /\ v \in VtxoType /\ IsSpendable(v)
           /\ v.txid = txid /\ v.vout = vout /\ v.value = value
<1> DEFINE v == Vtxo(txid, vout, value, state, commitments, expiry)
<1>1. 0 \in SpentBy
  BY OffchainAssumption DEF SpentBy
<1>2. v \in VtxoType
  BY <1>1 DEF Vtxo, VtxoType
<1>3. IsSpendable(v) /\ v.txid = txid /\ v.vout = vout /\ v.value = value
  BY DEF Vtxo, IsSpendable
<1> QED
  BY <1>2, <1>3

\* A set that is one new coin, or none when it would be worth nothing.
LEMMA AtMostOne ==
    ASSUME NEW a, NEW n \in Nat, n # 0 => a.value = n,
           NEW S, S = IF n = 0 THEN {} ELSE {a}
    PROVE  IsCoins(S) /\ Value(S) = n
<1>1. IsCoins({})
  BY FS_EmptySet DEF IsCoins
<1>2. CASE n = 0
  BY <1>1, <1>2, ValueEmpty
<1>3. CASE n # 0
  <2>1. a.value = n /\ S = {} \cup {a} /\ a \notin {}
    BY <1>3
  <2>2. Value(S) = n
    BY <1>1, <2>1, ValueAdd, ValueEmpty, SMTT(30)
  <2>3. IsCoins(S)
    <3>1. S = {a}
      BY <1>3
    <3>2. IsFiniteSet(S)
      BY <3>1, FS_Singleton
    <3>3. \A c \in S : c.value \in Nat
      BY <1>3, <3>1
    <3> QED
      BY <3>2, <3>3 DEF IsCoins
  <2> QED
    BY <2>2, <2>3
<1> QED
  BY <1>2, <1>3

\* What a payment makes: the payee's vtxo if that is the wallet itself, and
\* the change, typed, new and worth what was asked for.
LEMMA CreatedIs ==
    ASSUME TypeOK, CoinsKnown, NEW c \in Call, txs < MaxTx
    PROVE  LET N == Created(c, txs + 1)
               o == call[c].outputs
           IN  /\ N \subseteq VtxoType /\ IsFiniteSet(N) /\ IsCoins(N)
               /\ \A n \in N : n.txid = txs + 1 /\ IsSpendable(n)
               /\ \A m, n \in N : SameOutpoint(m, n) => m = n
               /\ Value(N) = (IF call[c].toSelf THEN o.out ELSE 0) + o.vtxo
<1> DEFINE o == call[c].outputs
           first == IF call[c].toSelf THEN o.out ELSE 0
           own == IF call[c].toSelf THEN <<o.out, o.vtxo>> ELSE <<0, o.vtxo>>
           commitments == UNION {v.commitments : v \in call[c].inputs}
           expiry == Earliest(call[c].inputs)
           State(n) == IF n < DustAmount THEN "swept" ELSE "preconfirmed"
           W(i, n) == Vtxo(txs + 1, i, n, State(n), commitments, expiry)
           A == IF first = 0 THEN {} ELSE {W(1, first)}
           B == IF o.vtxo = 0 THEN {} ELSE {W(2, o.vtxo)}
           N == Created(c, txs + 1)
<1>1. call[c].inputs \subseteq VtxoType /\ o.out \in Nat /\ o.vtxo \in Nat /\ first \in Nat
  BY DEF TypeOK, CallType, Outputs
<1>2. txs + 1 \in TxIds
  BY OffchainAssumption DEF TypeOK, TxIds
<1>3. commitments \in SUBSET TxIds
  BY <1>1 DEF VtxoType
<1>4. expiry \in Expiries \cup {0}
  <2> DEFINE I == call[c].inputs
  <2>1. I \subseteq VtxoType
    BY <1>1
  <2> HIDE DEF I
  <2>2. Earliest(I) \in Expiries \cup {0}
    BY <2>1, EarliestType
  <2> QED
    BY <2>2 DEF I
<1>5. own[1] = first /\ own[2] = o.vtxo /\ 1 .. 2 = {1, 2}
  OBVIOUS
<1>6. N = {W(i, own[i]) : i \in {j \in 1 .. 2 : own[j] > 0}}
  BY DEF Created
<1>7. N = A \cup B
  <2>1. own[1] > 0 <=> first # 0
    BY <1>1, <1>5
  <2>2. own[2] > 0 <=> o.vtxo # 0
    BY <1>1, <1>5
  <2>3. {j \in 1 .. 2 : own[j] > 0}
          = (IF first = 0 THEN {} ELSE {1}) \cup (IF o.vtxo = 0 THEN {} ELSE {2})
    BY <1>5, <2>1, <2>2
  <2>4. W(1, own[1]) = W(1, first) /\ W(2, own[2]) = W(2, o.vtxo)
    BY <1>5
  <2> HIDE DEF own, first, W
  <2> QED
    BY <1>6, <2>3, <2>4
<1>8. \A i \in 1 .. 2, n \in Nat \ {0} :
         /\ W(i, n) \in VtxoType /\ IsSpendable(W(i, n))
         /\ W(i, n).txid = txs + 1 /\ W(i, n).vout = i /\ W(i, n).value = n
  <2> TAKE i \in 1 .. 2, n \in Nat \ {0}
  <2>1. State(n) \in {"settled", "preconfirmed", "swept"} /\ i \in 0 .. 2
    OBVIOUS
  <2> HIDE DEF commitments, expiry, State
  <2> QED
    BY <1>2, <1>3, <1>4, <2>1, VtxoIs
<1> HIDE DEF W, N
<1>9. /\ \A a \in A : a \in VtxoType /\ IsSpendable(a) /\ a.txid = txs + 1 /\ a.vout = 1 /\ a = W(1, first)
      /\ \A b \in B : b \in VtxoType /\ IsSpendable(b) /\ b.txid = txs + 1 /\ b.vout = 2 /\ b = W(2, o.vtxo)
  BY <1>1, <1>5, <1>8
<1>10. IsCoins(A) /\ Value(A) = first /\ IsCoins(B) /\ Value(B) = o.vtxo
  <2>1. first # 0 => W(1, first).value = first
    BY <1>1, <1>5, <1>8
  <2>2. o.vtxo # 0 => W(2, o.vtxo).value = o.vtxo
    BY <1>1, <1>5, <1>8
  <2> DEFINE n == o.vtxo
  <2>3. n \in Nat
    BY <1>1
  <2> HIDE DEF first, n
  <2>4. IsCoins(A) /\ Value(A) = first
    BY <1>1, <2>1, AtMostOne
  <2>5. IsCoins(B) /\ Value(B) = n
    BY <2>2, <2>3, AtMostOne DEF n
  <2> QED
    BY <2>4, <2>5 DEF n
<1> HIDE DEF A, B
<1>11. A \cap B = {}
  BY <1>9
<1>12. IsCoins(N) /\ IsFiniteSet(N) /\ Value(N) = first + o.vtxo
  BY <1>7, <1>10, <1>11, CoinsUnion, ValueUnion DEF IsCoins
<1>13. N \subseteq VtxoType /\ \A n \in N : n.txid = txs + 1 /\ IsSpendable(n)
  BY <1>7, <1>9
<1>14. \A m, n \in N : SameOutpoint(m, n) => m = n
  BY <1>7, <1>9 DEF SameOutpoint
<1> QED
  BY <1>12, <1>13, <1>14 DEF N

\* What the wallet is worth when coins I and U are spent and N and M made.
LEMMA BalanceMoves ==
    ASSUME TypeOK, CoinsKnown,
           NEW I \in SUBSET {v \in vtxos : IsSpendable(v)}, NEW U \in SUBSET Unspent(boarding),
           NEW N, IsCoins(N), {v \in vtxos : IsSpendable(v)} \cap N = {},
           NEW M, IsCoins(M), Unspent(boarding) \cap M = {},
           {v \in vtxos' : IsSpendable(v)} = ({v \in vtxos : IsSpendable(v)} \ I) \cup N,
           Unspent(boarding') = (Unspent(boarding) \ U) \cup M,
           NEW out \in Int, Value(I) + Value(U) = out + Value(N) + Value(M)
    PROVE  Balance \in Nat /\ Balance' = Balance - out /\ out <= Balance
<1> DEFINE L == {v \in vtxos : IsSpendable(v)}
           B == Unspent(boarding)
<1>1. IsCoins(L) /\ IsCoins(B)
  <2>1. L \in SUBSET vtxos
    OBVIOUS
  <2> HIDE DEF L
  <2> QED
    BY <2>1, Listed, WalletCoins, CoinsSubset
<1>2. Balance = Value(L) + Value(B)
  BY ValueLive DEF Balance
<1>3. Balance' = Value((L \ I) \cup N) + Value((B \ U) \cup M)
  <2>1. (Spendable \cup Recoverable)' = {v \in vtxos' : IsSpendable(v)}
    BY DEF Spendable, Recoverable
  <2>2. Unspent(boarding)' = Unspent(boarding')
    BY DEF Unspent
  <2>3. Balance' = Value((Spendable \cup Recoverable)') + Value(Unspent(boarding)')
    BY DEF Balance, Value, SumFunction
  <2> QED
    BY <2>1, <2>2, <2>3
<1> HIDE DEF L, B
<1>4. I \in SUBSET L /\ U \in SUBSET B /\ L \cap N = {} /\ B \cap M = {}
  BY DEF L, B
<1>5. /\ Value(L) + Value(B) \in Nat /\ out <= Value(L) + Value(B)
      /\ Value((L \ I) \cup N) + Value((B \ U) \cup M) = (Value(L) + Value(B)) - out
  <2>1. WorthMoves(L, I, N) /\ WorthMoves(B, U, M)
    BY <1>1, <1>4, ValueMoves
  <2> QED
    BY <2>1 DEF WorthMoves
<1> QED
  BY <1>2, <1>3, <1>5

\* What a step of a call that takes effect does to the wallet's value.
Pays(c) ==
    /\ Balance \in Nat /\ Balance' = Balance - Asked(c) /\ Asked(c) <= Balance
    /\ c \notin moved /\ moved' = moved \cup {c} /\ call[c].pc # "returned"
    /\ \E pc \in {"returned", "threw"} : Moves(c, pc)

\* finalizeTx: the payment takes its amount out of the wallet and the change comes back.
LEMMA FinalizePays ==
    ASSUME IInv, NEW c \in Call, Finalize(c)
    PROVE  IInv' /\ Pays(c)
<1> DEFINE I == call[c].inputs
           live == {v \in vtxos : IsSpendable(v)}
           N == Created(c, txs + 1)
           f == [v \in I |-> [v EXCEPT !.arkTxId = txs + 1]]
           o == call[c].outputs
<1>0. /\ TypeOK /\ CoinsKnown /\ CallsBalance /\ InputsReserved
      /\ call[c].pc = "submitted" /\ txs < MaxTx /\ txs' = txs + 1
      /\ I \subseteq reserved /\ reserved \subseteq live
      /\ reserved' = reserved \ I /\ moved' = moved \cup {c} /\ boarding' = boarding
      /\ c \notin moved
  BY DEF IInv, Finalize, InputsReserved, TypeOK, CallsBalance
<1>1. PICK pc \in {"returned", "threw"} : Goes(c, pc) /\ faults' \in 0 .. MaxFaults
  <2>1. (Goes(c, "returned") /\ faults' = faults) \/ (Throw(c) /\ Fault)
    BY DEF Finalize
  <2>2. faults \in 0 .. MaxFaults /\ (Fault => faults' \in 0 .. MaxFaults)
    BY <1>0, OffchainAssumption DEF TypeOK, Fault
  <2> QED
    BY <2>1, <2>2 DEF Throw
<1>2. /\ N \subseteq VtxoType /\ IsFiniteSet(N) /\ IsCoins(N)
      /\ \A n \in N : n.txid = txs + 1 /\ IsSpendable(n)
      /\ \A m, n \in N : SameOutpoint(m, n) => m = n
      /\ Value(N) = (IF call[c].toSelf THEN o.out ELSE 0) + o.vtxo
  BY <1>0, CreatedIs
<1>3. txs \in Nat /\ txs' \in 0 .. MaxTx /\ txs + 1 \in TxIds /\ txs + 1 > txs /\ txs' >= txs
  BY <1>0, OffchainAssumption DEF TypeOK, TxIds
<1>4. vtxos' = (vtxos \ I) \cup {f[v] : v \in I} \cup N
  BY DEF Finalize, PaidBy
<1>5. unusual' \in BOOLEAN /\ batch' \in SpentBy /\ batch' <= txs'
  BY <1>0, <1>3, OffchainAssumption DEF Finalize, TypeOK, SpentBy
<1>6. \A v \in I : f[v] \in VtxoType /\ SameOutpoint(f[v], v) /\ ~IsSpendable(f[v])
  <2> TAKE v \in I
  <2>1. v \in VtxoType /\ f[v] = [v EXCEPT !.arkTxId = txs + 1]
    BY <1>0 DEF TypeOK
  <2> QED
    BY <1>3, <2>1, PaidType
<1> HIDE DEF f, N
<1>7. \A d \in Call \ {c} : call[d].pc = "submitted" => call[c].inputs \cap call[d].inputs = {}
  BY <1>0 DEF InputsReserved
<1>8. /\ call[c].inputs \subseteq vtxos
      /\ \A n \in N : n.txid > txs /\ n.txid <= txs' /\ IsSpendable(n)
  BY <1>0, <1>2, <1>3
<1>9. boarding' \subseteq UtxoType /\ IsFiniteSet(boarding') /\ \A u \in boarding' : u.txid <= txs'
  <2>1. \A u \in boarding : u.txid \in Nat
    BY <1>0, OffchainAssumption DEF TypeOK, UtxoType, TxIds
  <2> QED
    BY <1>0, <1>3, <2>1 DEF TypeOK, CoinsKnown
<1>10. IInv' /\ {v \in vtxos' : IsSpendable(v)} = (live \ I) \cup N
  BY <1>0, <1>1, <1>2, <1>3, <1>4, <1>5, <1>6, <1>7, <1>8, <1>9, IInvMoves
<1>11. Moves(c, pc)
  BY <1>0, <1>1, GoesMoves
<1>12. Balance \in Nat /\ Balance' = Balance - Asked(c) /\ Asked(c) <= Balance
  <2>1. live \cap N = {}
    <3>1. \A v \in live : v.txid \in Nat /\ v.txid <= txs
      BY <1>0, OffchainAssumption DEF TypeOK, CoinsKnown, VtxoType, TxIds
    <3> QED
      BY <1>2, <1>3, <3>1
  <2>2. o.out \in Nat /\ o.vtxo \in Nat /\ o.utxo \in Nat /\ Asked(c) \in Nat
        /\ Asked(c) = IF call[c].toSelf THEN 0 ELSE o.out
    BY <1>0 DEF TypeOK, CallType, Outputs, Asked
  <2>3. Value(I) + Value(call[c].utxos) = o.out + o.vtxo + o.utxo
        /\ call[c].utxos = {} /\ o.utxo = 0
    BY <1>0 DEF CallsBalance
  <2>4. Value({}) = 0 /\ IsCoins({})
    BY ValueEmpty, FS_EmptySet DEF IsCoins
  <2>5. IsCoins(I) /\ Value(I) \in Nat
    <3>1. I \in SUBSET vtxos
      BY <1>0
    <3> QED
      BY <1>0, <3>1, WalletCoins, CoinsSubset, ValueNat
  <2>6. Value(I) + Value({}) = Asked(c) + Value(N) + Value({})
    BY <1>2, <2>2, <2>3, <2>4, <2>5
  <2>7. Unspent(boarding') = (Unspent(boarding) \ {}) \cup {} /\ Unspent(boarding) \cap {} = {}
        /\ {} \in SUBSET Unspent(boarding)
    BY <1>0
  <2>8. I \in SUBSET live
    BY <1>0
  <2> DEFINE J == I
             out == Asked(c)
  <2> HIDE DEF J, out
  <2>9. Balance \in Nat /\ Balance' = Balance - out /\ out <= Balance
    BY <1>0, <1>2, <1>10, <2>1, <2>2, <2>4, <2>6, <2>7, <2>8, BalanceMoves DEF J, out
  <2> QED
    BY <2>9 DEF out
<1> QED
  BY <1>0, <1>10, <1>11, <1>12 DEF Pays

\* The transaction of a leaf is new and comes after that of its batch.
LEMMA LeafIs ==
    ASSUME TypeOK, CoinsKnown, NEW k \in Commitments, Leaf(k) <= MaxTx
    PROVE  /\ k \in TxIds /\ Leaf(k) \in TxIds /\ k \in SpentBy /\ k # 0
           /\ txs \in Nat /\ Leaf(k) > txs /\ k < Leaf(k) /\ Leaf(k) \in 0 .. MaxTx
           /\ k > txs \/ k = batch
           /\ k = batch => k <= txs
BY OffchainAssumption DEF TypeOK, CoinsKnown, Commitments, Leaf, TxIds, SpentBy

\* A batch: the offboarded amount leaves the wallet and the rest comes back.
LEMMA BatchPays ==
    ASSUME IInv, NEW c \in Call, BatchSettles(c)
    PROVE  IInv' /\ Pays(c)
<1> DEFINE I == call[c].inputs
           U == call[c].utxos
           live == {v \in vtxos : IsSpendable(v)}
           o == call[c].outputs
<1>1. PICK k \in Commitments : \E expiry \in Expiry(k) :
         /\ Leaf(k) <= MaxTx /\ txs' = Leaf(k) /\ batch' = k
         /\ \A u \in boarding : u.txid = k => o.utxo = 0
         /\ vtxos' = (vtxos \ I) \cup SettledBy(I, k)
                   \cup (IF o.vtxo = 0 THEN {}
                         ELSE {Vtxo(Leaf(k), 1, o.vtxo, "settled", {k}, expiry)})
         /\ boarding' = (boarding \ U) \cup SettledBy(U, k)
                   \cup (IF o.utxo = 0 THEN {}
                         ELSE {[txid |-> k, value |-> o.utxo, settledBy |-> 0]})
         /\ unusual' = (unusual \/ o.utxo # 0 \/ k = batch)
  BY DEF BatchSettles
<1>2. PICK expiry \in Expiry(k) :
         /\ vtxos' = (vtxos \ I) \cup SettledBy(I, k)
                   \cup (IF o.vtxo = 0 THEN {}
                         ELSE {Vtxo(Leaf(k), 1, o.vtxo, "settled", {k}, expiry)})
  BY <1>1
<1> DEFINE leaf == Leaf(k)
           f == [v \in I |-> [v EXCEPT !.settledBy = k]]
           g == [u \in U |-> [u EXCEPT !.settledBy = k]]
           u1 == [txid |-> k, value |-> o.utxo, settledBy |-> 0]
           M == IF o.utxo = 0 THEN {} ELSE {u1}
           v1 == Vtxo(leaf, 1, o.vtxo, "settled", {k}, expiry)
           N == IF o.vtxo = 0 THEN {} ELSE {v1}
<1>3. /\ TypeOK /\ CoinsKnown /\ CallsBalance /\ InputsReserved
      /\ call[c].pc = "settling" /\ txs' = leaf
      /\ I \subseteq vtxos \ reserved /\ I \subseteq live /\ U \subseteq boarding
      /\ reserved' = reserved \ I /\ moved' = moved \cup {c}
      /\ c \notin moved /\ ~call[c].toSelf
  BY <1>1 DEF IInv, BatchSettles, Free, CallsBalance
<1>4. /\ vtxos' = (vtxos \ I) \cup {f[v] : v \in I} \cup N
      /\ boarding' = (boarding \ U) \cup {g[u] : u \in U} \cup M
  BY <1>1, <1>2, ZenonT(60) DEF SettledBy
<1>5. unusual' \in BOOLEAN
  BY <1>3, <1>1 DEF TypeOK
<1>6. /\ txs \in Nat /\ txs' \in 0 .. MaxTx /\ k \in TxIds /\ leaf \in TxIds
      /\ leaf > txs /\ txs' >= txs /\ k <= txs' /\ leaf <= txs' /\ k # 0
      /\ batch' \in SpentBy /\ batch' <= txs' /\ k \in SpentBy
  <2>1. k \in TxIds /\ leaf \in TxIds /\ k \in SpentBy /\ k # 0 /\ txs \in Nat /\ leaf > txs
        /\ k < leaf /\ leaf \in 0 .. MaxTx
    BY <1>3, <1>1, LeafIs
  <2>2. k \in Int /\ leaf \in Int
    BY <2>1 DEF TxIds
  <2> HIDE DEF leaf
  <2> QED
    BY <1>3, <1>1, <2>1, <2>2
<1> HIDE DEF leaf
<1>7. PICK pc \in {"returned", "threw"} : Goes(c, pc) /\ faults' \in 0 .. MaxFaults
  <2>1. (Goes(c, "returned") /\ faults' = faults) \/ (Throw(c) /\ Fault)
    BY DEF BatchSettles
  <2>2. faults \in 0 .. MaxFaults /\ (Fault => faults' \in 0 .. MaxFaults)
    BY <1>3, OffchainAssumption DEF TypeOK, Fault
  <2> QED
    BY <2>1, <2>2 DEF Throw
<1>8. o.out \in Nat /\ o.vtxo \in Nat /\ o.utxo \in Nat /\ Asked(c) = o.out
  BY <1>3 DEF TypeOK, CallType, Outputs, Asked
<1>9. o.vtxo # 0 => v1 \in VtxoType /\ IsSpendable(v1) /\ v1.txid = leaf /\ v1.value = o.vtxo
  <2> DEFINE n == o.vtxo
  <2> SUFFICES ASSUME n # 0
               PROVE  v1 \in VtxoType /\ IsSpendable(v1) /\ v1.txid = leaf /\ v1.value = n
    OBVIOUS
  <2>1. n \in Nat \ {0} /\ 1 \in 0 .. 2 /\ {k} \in SUBSET TxIds
        /\ expiry \in Expiries \cup {0} /\ "settled" \in {"settled", "preconfirmed", "swept"}
    BY <1>6, <1>8 DEF Expiry
  <2> HIDE DEF n
  <2>2. LET v == Vtxo(leaf, 1, n, "settled", {k}, expiry) IN
        v \in VtxoType /\ IsSpendable(v) /\ v.txid = leaf /\ v.value = n
    BY <1>6, <2>1, VtxoIs
  <2> QED
    BY <2>2 DEF n
<1>10. o.utxo # 0 => u1 \in UtxoType /\ u1.settledBy = 0 /\ u1.txid = k /\ u1.value = o.utxo
  BY <1>6, <1>8, OffchainAssumption DEF UtxoType, SpentBy
<1>11. /\ \A v \in I : f[v] \in VtxoType /\ SameOutpoint(f[v], v) /\ ~IsSpendable(f[v])
      /\ \A u \in U : g[u] \in UtxoType /\ g[u].txid = u.txid /\ g[u].settledBy # 0
  <2>1. I \subseteq VtxoType /\ U \subseteq UtxoType
    BY <1>3 DEF TypeOK
  <2>2. /\ \A v \in I : f[v] = [v EXCEPT !.settledBy = k]
        /\ \A u \in U : g[u] = [u EXCEPT !.settledBy = k]
    OBVIOUS
  <2>3. /\ \A v \in VtxoType : LET p == [v EXCEPT !.settledBy = k] IN
              p \in VtxoType /\ SameOutpoint(p, v) /\ ~IsSpendable(p)
        /\ \A u \in UtxoType : LET p == [u EXCEPT !.settledBy = k] IN
              p \in UtxoType /\ p.txid = u.txid /\ p.settledBy # 0
    BY <1>6, SettledType
  <2> HIDE DEF f, g
  <2>4. \A v \in I : f[v] \in VtxoType /\ SameOutpoint(f[v], v) /\ ~IsSpendable(f[v])
    BY <2>1, <2>2, <2>3, ZenonT(40)
  <2>5. \A u \in U : g[u] \in UtxoType /\ g[u].txid = u.txid /\ g[u].settledBy # 0
    BY <2>1, <2>2, <2>3, Zenon
  <2> QED
    BY <2>4, <2>5
<1>12. IsCoins(N) /\ Value(N) = o.vtxo
  <2> DEFINE n == o.vtxo
  <2>1. n \in Nat /\ (n # 0 => v1.value = n) /\ N = IF n = 0 THEN {} ELSE {v1}
    BY <1>8, <1>9
  <2> HIDE DEF n, N, v1
  <2>2. IsCoins(N) /\ Value(N) = n
    BY <2>1, AtMostOne
  <2> QED
    BY <2>2 DEF n
<1>13. IsCoins(M) /\ Value(M) = o.utxo
  <2> DEFINE n == o.utxo
  <2>1. n \in Nat /\ (n # 0 => u1.value = n) /\ M = IF n = 0 THEN {} ELSE {u1}
    BY <1>8, <1>10
  <2> HIDE DEF n, M, u1
  <2>2. IsCoins(M) /\ Value(M) = n
    BY <2>1, AtMostOne
  <2> QED
    BY <2>2 DEF n
<1>14. /\ N \subseteq VtxoType /\ \A n \in N : n.txid = leaf /\ IsSpendable(n)
       /\ \A m, n \in N : SameOutpoint(m, n) => m = n
       /\ M \subseteq UtxoType /\ \A n \in M : n.txid = k /\ n.settledBy = 0
  BY <1>9, <1>10
<1>15. IsFiniteSet(N) /\ IsFiniteSet(M)
  BY <1>12, <1>13 DEF IsCoins
<1> HIDE DEF f, g, N, M, v1, u1
<1>16. /\ boarding' \subseteq UtxoType /\ IsFiniteSet(boarding')
       /\ \A u \in boarding' : u.txid <= txs \/ u \in M
       /\ Unspent(boarding') = (Unspent(boarding) \ U) \cup M
       /\ Unspent(boarding) \cap M = {}
       /\ U \in SUBSET Unspent(boarding)
  <2>1. U \in SUBSET Unspent(boarding)
    BY <1>3 DEF CallsBalance, Unspent
  <2>2. \A n \in M : n.settledBy = 0 /\ \A u \in boarding : n.txid # u.txid
    BY <1>1, <1>14 DEF M
  <2> HIDE DEF U
  <2>3. BoardingIs((boarding \ U) \cup {g[u] : u \in U} \cup M, U, M)
    <3>1. TypeOK /\ CoinsKnown
      BY <1>3
    <3>2. M \in SUBSET UtxoType /\ IsFiniteSet(M)
      BY <1>14, <1>15
    <3> DEFINE P == {g[u] : u \in U}
    <3>3. P \in SUBSET UtxoType
      BY <1>11
    <3>4. IsFiniteSet(P)
      <4>1. IsFiniteSet(U)
        BY <2>1, <3>1, FS_Subset DEF CoinsKnown, Unspent
      <4> QED
        BY <4>1, ImageFinite
    <3>5. \A p \in P : p.settledBy # 0 /\ p.txid <= txs
      <4>1. \A u \in U : u.txid <= txs
        BY <2>1, <3>1 DEF CoinsKnown, Unspent
      <4> QED
        BY <1>11, <4>1
    <3> HIDE DEF P
    <3>6. BoardingIs((boarding \ U) \cup P \cup M, U, M)
      BY <2>1, <2>2, <3>1, <3>2, <3>3, <3>4, <3>5, BoardingMoves
    <3> QED
      BY <3>6 DEF P
  <2> QED
    BY <1>4, <2>1, <2>3 DEF BoardingIs
<1>17. \A u \in boarding' : u.txid <= txs'
  <2>1. \A u \in boarding' : u.txid \in Nat
    BY <1>16, OffchainAssumption DEF UtxoType, TxIds
  <2> QED
    BY <1>3, <1>6, <1>14, <1>16, <2>1
<1>18. \A d \in Call \ {c} : call[d].pc = "submitted" => call[c].inputs \cap call[d].inputs = {}
  BY <1>3 DEF InputsReserved
<1>19. /\ call[c].inputs \subseteq vtxos
       /\ \A n \in N : n.txid > txs /\ n.txid <= txs' /\ IsSpendable(n)
  BY <1>3, <1>6, <1>14
<1>20. IInv' /\ {v \in vtxos' : IsSpendable(v)} = (live \ I) \cup N
  BY <1>3, <1>7, <1>6, <1>4, <1>5, <1>11, <1>14, <1>15, <1>16, <1>17, <1>18, <1>19, IInvMoves
<1>21. Moves(c, pc)
  BY <1>3, <1>7, GoesMoves
<1>22. Balance \in Nat /\ Balance' = Balance - Asked(c) /\ Asked(c) <= Balance
  <2>1. live \cap N = {}
    <3>1. \A v \in live : v.txid \in Nat /\ v.txid <= txs
      BY <1>3, OffchainAssumption DEF TypeOK, CoinsKnown, VtxoType, TxIds
    <3> QED
      BY <1>6, <1>14, <3>1
  <2>2. Value(I) + Value(U) = Asked(c) + Value(N) + Value(M) /\ Asked(c) \in Nat
    BY <1>3, <1>8, <1>12, <1>13 DEF CallsBalance
  <2>3. I \in SUBSET live
    BY <1>3
  <2> DEFINE J == I
             W == U
             out == Asked(c)
  <2> HIDE DEF J, W, out
  <2>4. Balance \in Nat /\ Balance' = Balance - out /\ out <= Balance
    BY <1>3, <1>12, <1>13, <1>16, <1>20, <2>1, <2>2, <2>3, BalanceMoves DEF J, W, out
  <2> QED
    BY <2>4 DEF out
<1> QED
  BY <1>3, <1>20, <1>21, <1>22 DEF Pays

\* A payment to the wallet: it is worth more, and its calls do not notice.
LEMMA ReceiveAdds ==
    ASSUME IInv, Receive
    PROVE  IInv' /\ Balance' > Balance /\ UNCHANGED <<call, moved>>
<1> DEFINE live == {v \in vtxos : IsSpendable(v)}
<1>1. PICK k \in Commitments : \E value \in Incomes, expiry \in Expiry(k) :
         /\ Leaf(k) <= MaxTx /\ txs' = Leaf(k)
         /\ \/ /\ vtxos' = vtxos \cup {Vtxo(Leaf(k), 0, value, "settled", {k}, expiry)}
               /\ batch' = k /\ unusual' = (unusual \/ SettledIn(k))
            \/ /\ vtxos' = vtxos \cup {Vtxo(Leaf(k), 0, value, "preconfirmed", {k}, expiry)}
               /\ batch' = 0 /\ unusual' = unusual
  BY DEF Receive
<1>2. PICK value \in Incomes, expiry \in Expiry(k), state \in {"settled", "preconfirmed"} :
         /\ vtxos' = vtxos \cup {Vtxo(Leaf(k), 0, value, state, {k}, expiry)}
         /\ batch' \in {0, k} /\ unusual' \in {unusual, unusual \/ SettledIn(k)}
  BY <1>1
<1> DEFINE leaf == Leaf(k)
           n == Vtxo(leaf, 0, value, state, {k}, expiry)
           N == {n}
<1>3. /\ TypeOK /\ CoinsKnown /\ CallsBalance /\ InputsReserved /\ SoonestAreSpent
      /\ txs' = leaf /\ vtxos' = vtxos \cup {n}
      /\ UNCHANGED <<boarding, call, reserved, moved, faults>>
  BY <1>1, <1>2 DEF IInv, Receive
<1>4. /\ txs \in Nat /\ k \in TxIds /\ leaf \in TxIds /\ txs' \in 0 .. MaxTx /\ leaf > txs
      /\ leaf \in Nat /\ batch' \in SpentBy /\ batch' <= txs' /\ unusual' \in BOOLEAN
  <2>1. /\ k \in TxIds /\ leaf \in TxIds /\ k \in SpentBy /\ txs \in Nat /\ leaf > txs
        /\ k < leaf /\ leaf \in 0 .. MaxTx
    BY <1>3, <1>1, LeafIs
  <2>2. k \in Nat /\ leaf \in Nat /\ 0 \in SpentBy
    BY <2>1, OffchainAssumption DEF TxIds, SpentBy
  <2>3. unusual' \in BOOLEAN
    BY <1>3, <1>2 DEF TypeOK, SettledIn
  <2> HIDE DEF leaf
  <2> QED
    BY <1>3, <1>2, <2>1, <2>2, <2>3
<1> HIDE DEF leaf
<1>5. n \in VtxoType /\ IsSpendable(n) /\ n.txid = leaf /\ n.value = value /\ value \in Nat \ {0}
  <2>1. /\ value \in Nat \ {0} /\ expiry \in Expiries \cup {0} /\ {k} \in SUBSET TxIds
        /\ 0 \in 0 .. 2 /\ state \in {"settled", "preconfirmed", "swept"}
    BY <1>4, OffchainAssumption DEF Expiry
  <2> QED
    BY <1>4, <2>1, VtxoIs
<1>6. IsCoins(N) /\ Value(N) = value
  <2> HIDE DEF n
  <2>1. N = IF value = 0 THEN {} ELSE {n}
    BY <1>5
  <2> HIDE DEF N
  <2> QED
    BY <1>5, <2>1, AtMostOne
<1> HIDE DEF n
<1>7. VtxosAre(vtxos', {}, N)
  <2> DEFINE f == [v \in {} |-> v]
             I == {}
  <2>1. /\ I \in SUBSET live /\ N \in SUBSET VtxoType /\ IsFiniteSet(N)
        /\ \A v \in I : f[v] \in VtxoType /\ SameOutpoint(f[v], v) /\ ~IsSpendable(f[v])
        /\ \A m \in N : m.txid > txs /\ IsSpendable(m)
        /\ \A m, j \in N : SameOutpoint(m, j) => m = j
    BY <1>4, <1>5, <1>6 DEF IsCoins
  <2>2. vtxos' = (vtxos \ I) \cup {f[v] : v \in I} \cup N
    BY <1>3
  <2> HIDE DEF f, I, N
  <2>3. VtxosAre((vtxos \ I) \cup {f[v] : v \in I} \cup N, I, N)
    BY <1>3, <2>1, CoinsMove
  <2> QED
    BY <2>2, <2>3 DEF I
<1>8. /\ vtxos' \subseteq VtxoType /\ IsFiniteSet(vtxos')
      /\ \A v, w \in vtxos' : SameOutpoint(v, w) => v = w
      /\ \A v \in vtxos : \E w \in vtxos' : SameOutpoint(v, w)
      /\ \A v \in vtxos' : v.txid <= txs \/ v \in N
      /\ {v \in vtxos' : IsSpendable(v)} = (live \ {}) \cup N
      /\ live \cap N = {}
  BY <1>7 DEF VtxosAre
<1>9. TypeOK'
  <2>1. reserved' \subseteq {v \in vtxos' : IsSpendable(v)}
    BY <1>3, <1>8 DEF TypeOK
  <2>2. \A d \in Call : \A v \in call'[d].inputs : \E w \in vtxos' : SameOutpoint(v, w)
    BY <1>3 DEF TypeOK
  <2> QED
    BY <1>3, <1>4, <1>8, <2>1, <2>2 DEF TypeOK
<1>10. CoinsKnown'
  <2>1. \A v \in vtxos' \cup boarding : v.txid \in Nat
    BY <1>3, <1>8, OffchainAssumption DEF TypeOK, VtxoType, UtxoType, TxIds
  <2>2. \A v \in vtxos' \cup boarding : v.txid <= txs'
    BY <1>3, <1>4, <1>5, <1>8, <2>1 DEF CoinsKnown
  <2> QED
    BY <1>3, <1>4, <1>8, <2>2 DEF CoinsKnown
<1>11. CallsBalance' /\ InputsReserved' /\ SoonestAreSpent'
  BY <1>3 DEF CallsBalance, InputsReserved, SoonestAreSpent
<1>12. Balance' > Balance
  <2>1. Value({}) = 0 /\ IsCoins({}) /\ value \in Nat \ {0} /\ 0 - value \in Int
    BY <1>5, ValueEmpty, FS_EmptySet DEF IsCoins
  <2>2. Value({}) + Value({}) = (0 - value) + Value(N) + Value({})
    BY <1>6, <2>1
  <2>3. Unspent(boarding') = (Unspent(boarding) \ {}) \cup {} /\ Unspent(boarding) \cap {} = {}
        /\ {} \in SUBSET Unspent(boarding) /\ {} \in SUBSET live
    BY <1>3
  <2> DEFINE out == 0 - value
  <2> HIDE DEF N, out
  <2>4. Balance \in Nat /\ Balance' = Balance - out
    BY <1>3, <1>6, <1>8, <2>1, <2>2, <2>3, BalanceMoves DEF out
  <2> QED
    BY <2>1, <2>4 DEF out
<1> QED
  BY <1>3, <1>9, <1>10, <1>11, <1>12 DEF IInv

\* A payment to the boarding address.
LEMMA BoardAdds ==
    ASSUME IInv, Board
    PROVE  IInv' /\ Balance' > Balance /\ UNCHANGED <<call, moved>>
<1> DEFINE live == {v \in vtxos : IsSpendable(v)}
<1>0. /\ TypeOK /\ CoinsKnown /\ CallsBalance /\ InputsReserved /\ SoonestAreSpent
      /\ txs < MaxTx /\ txs' = txs + 1
      /\ batch' = 0 /\ 0 \in SpentBy
      /\ UNCHANGED <<vtxos, call, reserved, moved, faults, unusual>>
  BY OffchainAssumption DEF IInv, Board, SpentBy
<1>1. PICK value \in Incomes :
         boarding' = boarding \cup {[txid |-> txs + 1, value |-> value, settledBy |-> 0]}
  BY DEF Board
<1>2. txs \in Nat /\ txs + 1 \in TxIds /\ txs' \in 0 .. MaxTx /\ txs + 1 > txs
  BY <1>0, OffchainAssumption DEF TypeOK, TxIds
<1> DEFINE n == [txid |-> txs + 1, value |-> value, settledBy |-> 0]
           N == {n}
<1>3. n \in UtxoType /\ n.settledBy = 0 /\ n.txid = txs + 1 /\ n.value = value /\ value \in Nat \ {0}
  BY <1>2, OffchainAssumption DEF UtxoType, SpentBy
<1>4. IsCoins(N) /\ Value(N) = value
  <2> HIDE DEF n
  <2>1. N = IF value = 0 THEN {} ELSE {n}
    BY <1>3
  <2> HIDE DEF N
  <2> QED
    BY <1>3, <2>1, AtMostOne
<1> HIDE DEF n
<1>5. /\ boarding \subseteq UtxoType /\ \A u \in boarding : u.txid \in Nat /\ u.txid <= txs
      /\ IsFiniteSet(boarding) /\ boarding' = boarding \cup N
  BY <1>0, <1>1, OffchainAssumption DEF TypeOK, CoinsKnown, UtxoType, TxIds, n
<1>6. /\ boarding' \subseteq UtxoType /\ IsFiniteSet(boarding')
      /\ Unspent(boarding') = (Unspent(boarding) \ {}) \cup N
      /\ Unspent(boarding) \cap N = {}
  <2>1. IsFiniteSet(boarding \cup N)
    BY <1>5, FS_AddElement
  <2>2. n \notin boarding
    BY <1>2, <1>3, <1>5
  <2> QED
    BY <1>3, <1>5, <2>1, <2>2 DEF Unspent
<1>7. TypeOK'
  BY <1>0, <1>2, <1>6 DEF TypeOK
<1>8. CoinsKnown'
  <2>1. \A v \in vtxos : v.txid \in Nat
    BY <1>0, OffchainAssumption DEF TypeOK, VtxoType, TxIds
  <2>2. \A v \in vtxos \cup boarding' : v.txid <= txs'
    BY <1>0, <1>2, <1>3, <1>5, <2>1 DEF CoinsKnown
  <2>3. batch' <= txs'
    BY <1>0, <1>2
  <2> QED
    BY <1>0, <1>6, <2>2, <2>3 DEF CoinsKnown
<1>9. CallsBalance' /\ InputsReserved' /\ SoonestAreSpent'
  BY <1>0 DEF CallsBalance, InputsReserved, SoonestAreSpent
<1>10. Balance' > Balance
  <2>1. Value({}) = 0 /\ IsCoins({}) /\ value \in Nat \ {0} /\ 0 - value \in Int
    BY <1>3, ValueEmpty, FS_EmptySet DEF IsCoins
  <2>2. Value({}) + Value({}) = (0 - value) + Value({}) + Value(N)
    BY <1>4, <2>1
  <2>3. /\ {v \in vtxos' : IsSpendable(v)} = (live \ {}) \cup {} /\ live \cap {} = {}
        /\ {} \in SUBSET Unspent(boarding) /\ {} \in SUBSET live
    BY <1>0
  <2> DEFINE out == 0 - value
  <2> HIDE DEF N, out
  <2>4. Balance \in Nat /\ Balance' = Balance - out
    BY <1>0, <1>4, <1>6, <2>1, <2>2, <2>3, BalanceMoves DEF out
  <2> QED
    BY <2>1, <2>4 DEF out
<1> QED
  BY <1>0, <1>7, <1>8, <1>9, <1>10 DEF IInv

\* What sweeping marks of a vtxo.
LEMMA SweptType ==
    ASSUME NEW v \in VtxoType
    PROVE  LET p == [v EXCEPT !.state = "swept"] IN
           /\ p \in VtxoType /\ SameOutpoint(p, v) /\ p.value = v.value /\ p.txid = v.txid
           /\ p.commitments = v.commitments /\ p.state = "swept"
           /\ p.settledBy = v.settledBy /\ p.arkTxId = v.arkTxId
           /\ IsSpendable(p) <=> IsSpendable(v)
BY DEF VtxoType, SameOutpoint, IsSpendable

\* The vtxos of an expired batch are swept: what the wallet is worth does not
\* change, and its calls do not notice.
LEMMA SweepKeeps ==
    ASSUME IInv, NEW k \in TxIds, Sweep(k)
    PROVE  IInv' /\ Balance' = Balance /\ UNCHANGED <<call, moved>>
<1> DEFINE live == {v \in vtxos : IsSpendable(v)}
           E == {v \in vtxos \ reserved : IsSpendable(v) /\ v.state # "swept" /\ k \in v.commitments}
           f == [v \in E |-> [v EXCEPT !.state = "swept"]]
           P == {f[v] : v \in E}
<1>0. /\ TypeOK /\ CoinsKnown /\ CallsBalance /\ InputsReserved /\ SoonestAreSpent
      /\ vtxos' = (vtxos \ E) \cup P /\ batch' = 0
      /\ UNCHANGED <<boarding, call, reserved, moved, txs, faults>>
      /\ E \subseteq live /\ E \cap reserved = {} /\ live \subseteq vtxos /\ E \subseteq vtxos
  BY DEF IInv, Sweep
<1>1. unusual' \in BOOLEAN
  BY <1>0 DEF Sweep, TypeOK
<1>2. \A v \in E : /\ f[v] \in VtxoType /\ SameOutpoint(f[v], v) /\ f[v].value = v.value
                   /\ f[v].txid = v.txid /\ IsSpendable(f[v])
  <2> TAKE v \in E
  <2>1. v \in VtxoType /\ IsSpendable(v) /\ f[v] = [v EXCEPT !.state = "swept"]
    BY <1>0 DEF TypeOK
  <2> QED
    BY <2>1, SweptType
<1> HIDE DEF f, E
<1>3. /\ vtxos \subseteq VtxoType /\ IsFiniteSet(vtxos) /\ \A v \in vtxos : v.txid <= txs
      /\ \A v, w \in vtxos : SameOutpoint(v, w) => v = w
  BY <1>0 DEF TypeOK, CoinsKnown
<1>4. vtxos' \subseteq VtxoType /\ IsFiniteSet(vtxos') /\ \A v \in vtxos' : v.txid <= txs
  <2>1. IsFiniteSet(E) /\ IsFiniteSet(vtxos \ E)
    BY <1>0, <1>3, FS_Subset
  <2>2. IsFiniteSet(P)
    BY <2>1, ImageFinite
  <2>3. \A p \in P : p \in VtxoType /\ p.txid <= txs
    BY <1>0, <1>2, <1>3
  <2> HIDE DEF P
  <2>4. IsFiniteSet((vtxos \ E) \cup P)
    BY <2>1, <2>2, FS_Union
  <2> QED
    BY <1>0, <1>3, <2>3, <2>4
<1>5. \A v \in vtxos' : \E a \in vtxos : /\ SameOutpoint(v, a)
                                      /\ v = IF a \in E THEN f[a] ELSE a
  <2> TAKE v \in vtxos'
  <2>1. CASE v \in vtxos \ E
    BY <2>1 DEF SameOutpoint
  <2>2. CASE v \in P
    BY <1>0, <1>2, <2>2
  <2> QED
    BY <1>0, <2>1, <2>2
<1>6. \A v, w \in vtxos' : SameOutpoint(v, w) => v = w
  <2> SUFFICES ASSUME NEW v \in vtxos', NEW w \in vtxos', SameOutpoint(v, w)
               PROVE  v = w
    OBVIOUS
  <2>1. PICK a \in vtxos : SameOutpoint(v, a) /\ v = IF a \in E THEN f[a] ELSE a
    BY <1>5
  <2>2. PICK b \in vtxos : SameOutpoint(w, b) /\ w = IF b \in E THEN f[b] ELSE b
    BY <1>5
  <2>3. SameOutpoint(a, b)
    BY <2>1, <2>2 DEF SameOutpoint
  <2> QED
    BY <1>3, <2>1, <2>2, <2>3
<1>7. \A v \in vtxos : \E w \in vtxos' : SameOutpoint(v, w)
  <2> TAKE v \in vtxos
  <2>1. CASE v \in E
    BY <1>0, <1>2, <2>1 DEF SameOutpoint
  <2>2. CASE v \notin E
    BY <1>0, <2>2 DEF SameOutpoint
  <2> QED
    BY <2>1, <2>2
<1>8. {v \in vtxos' : IsSpendable(v)} = (live \ E) \cup P
  BY <1>0, <1>2
<1>9. TypeOK'
  <2>1. reserved' \subseteq {v \in vtxos' : IsSpendable(v)}
    BY <1>0, <1>8 DEF TypeOK
  <2>2. \A d \in Call : \A v \in call'[d].inputs : \E w \in vtxos' : SameOutpoint(v, w)
    <3> TAKE d \in Call
    <3> TAKE v \in call'[d].inputs
    <3>1. PICK a \in vtxos : SameOutpoint(v, a)
      BY <1>0 DEF TypeOK
    <3>2. PICK w \in vtxos' : SameOutpoint(a, w)
      BY <1>7
    <3> QED
      BY <3>1, <3>2 DEF SameOutpoint
  <2>3. batch' \in SpentBy
    BY <1>0, OffchainAssumption DEF SpentBy
  <2> QED
    BY <1>0, <1>4, <1>6, <1>1, <2>1, <2>2, <2>3 DEF TypeOK
<1>10. CoinsKnown'
  <2>1. txs \in Nat /\ batch' <= txs'
    BY <1>0 DEF TypeOK
  <2> QED
    BY <1>0, <1>4, <2>1 DEF CoinsKnown
<1>11. CallsBalance' /\ InputsReserved' /\ SoonestAreSpent'
  BY <1>0 DEF CallsBalance, InputsReserved, SoonestAreSpent
<1>12. Balance' = Balance
  <2>1. IsCoins(live) /\ IsCoins(E) /\ IsCoins(live \ E)
    <3>1. live \in SUBSET vtxos /\ E \in SUBSET vtxos /\ live \ E \in SUBSET vtxos
      BY <1>0
    <3> HIDE DEF live
    <3> QED
      BY <1>0, <3>1, WalletCoins, CoinsSubset
  <2>2. IsCoins(P) /\ Value(P) = Value(E)
    <3>1. \A c \in E : f[c].value = c.value
      BY <1>2
    <3>2. \A c, d \in E : f[c] = f[d] => c = d
      BY <1>0, <1>2, <1>3 DEF SameOutpoint
    <3>3. Value(P) = Value(E)
      BY <2>1, <3>1, <3>2, ValueMarked
    <3>4. P \in SUBSET vtxos'
      BY <1>0
    <3>5. IsCoins(vtxos')
      BY <1>4 DEF IsCoins, VtxoType
    <3> HIDE DEF P
    <3> QED
      BY <3>3, <3>4, <3>5, CoinsSubset
  <2>3. (live \ E) \cap P = {}
    <3>1. \A p \in P : \E a \in E : SameOutpoint(p, a)
      BY <1>2
    <3>2. \A p \in P : p \in live => p \in E
      BY <1>0, <1>3, <3>1
    <3> QED
      BY <3>2
  <2>4. Value((live \ E) \cup P) = Value(live \ E) + Value(P)
    <3> HIDE DEF live, P
    <3> QED
      BY <2>1, <2>2, <2>3, ValueUnion
  <2>5. Value(live) = Value(E) + Value(live \ E)
    <3>1. E \in SUBSET live
      BY <1>0
    <3> HIDE DEF live
    <3> QED
      BY <2>1, <3>1, ValueSplit
  <2>6. Value((live \ E) \cup P) = Value(live)
    <3>1. Value(E) \in Nat /\ Value(live \ E) \in Nat
      BY <2>1, ValueNat
    <3> HIDE DEF live, P
    <3> QED
      BY <2>2, <2>4, <2>5, <3>1
  <2>7. (Spendable \cup Recoverable)' = {v \in vtxos' : IsSpendable(v)}
    BY DEF Spendable, Recoverable
  <2>8. Balance' = Value((Spendable \cup Recoverable)') + Value(Unspent(boarding))
    BY <1>0 DEF Balance, Value, SumFunction, Unspent
  <2>9. Balance = Value(live) + Value(Unspent(boarding))
    BY ValueLive DEF Balance
  <2> QED
    BY <1>8, <2>6, <2>7, <2>8, <2>9
<1> QED
  BY <1>0, <1>9, <1>10, <1>11, <1>12 DEF IInv

-----------------------------------------------------------------------------
(* The specification. *)

\* A call that ends, or goes on to its next request, with the coins as they are.
Passes(c) ==
    /\ CoinsStay /\ call[c].pc # "returned"
    /\ \E pc \in {"submitted", "threw"} : Moves(c, pc)

\* A request is refused, fails or goes through, and nothing has moved.
LEMMA CallPasses ==
    ASSUME IInv, NEW c \in Call, Submit(c) \/ Refused(c) \/ Interrupted(c)
    PROVE  IInv' /\ Passes(c)
<1>0. TypeOK /\ CoinsStay
  BY DEF IInv, Submit, Refused, Interrupted, CoinsStay
<1>1. faults \in 0 .. MaxFaults /\ (Fault => faults' \in 0 .. MaxFaults)
  BY <1>0, OffchainAssumption DEF TypeOK, Fault
<1>2. PICK pc \in {"submitted", "threw"} :
         /\ Goes(c, pc) /\ faults' \in 0 .. MaxFaults /\ call[c].pc # "returned"
         /\ \/ reserved' = reserved /\ pc = "threw"
            \/ /\ reserved' = reserved \cup call[c].inputs /\ call[c].inputs \subseteq vtxos \ reserved
               /\ call[c].pc = "signing"
  <2>1. CASE Submit(c)
    <3>1. CASE Free(c)
      BY <1>1, <2>1, <3>1 DEF Submit, Throw, Free
    <3>2. CASE ~Free(c)
      BY <1>1, <2>1, <3>2 DEF Submit, Throw
    <3> QED
      BY <3>1, <3>2
  <2>2. CASE Refused(c)
    BY <1>1, <2>2 DEF Refused, Throw
  <2>3. CASE Interrupted(c)
    BY <1>1, <2>3 DEF Interrupted, Throw
  <2> QED
    BY <2>1, <2>2, <2>3
<1>3. IInv'
  BY <1>0, <1>2, IInvGoes
<1>4. Moves(c, pc)
  BY <1>0, <1>2, GoesMoves
<1> QED
  BY <1>0, <1>2, <1>3, <1>4 DEF Passes

\* A call that lists the coins either asks for something or has nothing to ask.
LEMMA CallAsks ==
    ASSUME IInv, NEW c \in Call, SendBitcoin(c) \/ SettleAll(c) \/ Onboard(c) \/ Offboard(c)
    PROVE  IInv' /\ (Passes(c) \/ (CoinsStay /\ \E r : Asks(c, r)))
<1>0. TypeOK /\ CoinsKnown
  BY DEF IInv
<1>1. /\ (call[c].pc = "idle" /\ Throw(c)) \/ \E r : Asks(c, r)
      /\ CoinsStay /\ UNCHANGED <<reserved, faults>>
  BY <1>0, SendShape, SettleShape
<1>2. CASE call[c].pc = "idle" /\ Throw(c)
  <2>1. Goes(c, "threw") /\ faults' \in 0 .. MaxFaults
    BY <1>0, <1>1, <1>2 DEF Throw, TypeOK
  <2>2. IInv'
    BY <1>1, <2>1, IInvGoes
  <2>3. Moves(c, "threw")
    BY <1>0, <2>1, GoesMoves
  <2> QED
    BY <1>1, <1>2, <2>2, <2>3 DEF Passes
<1>3. CASE \E r : Asks(c, r)
  <2>1. PICK r : Asks(c, r)
    BY <1>3
  <2>2. IInv'
    BY <1>1, <2>1, IInvAsks
  <2> QED
    BY <1>1, <2>1, <2>2
<1> QED
  BY <1>1, <1>2, <1>3

\* The steps there are.
LEMMA Steps ==
    ASSUME IInv, Next
    PROVE  /\ IInv'
           /\ \/ Balance' > Balance /\ UNCHANGED <<call, moved>>
              \/ UNCHANGED <<Balance, call, moved>>
              \/ \E c \in Call : Pays(c) \/ Passes(c) \/ (CoinsStay /\ \E r : Asks(c, r))
<1>1. CASE Receive \/ Board
  BY <1>1, ReceiveAdds, BoardAdds
<1>2. ASSUME NEW c \in Call,
             SendBitcoin(c) \/ SettleAll(c) \/ Onboard(c) \/ Offboard(c)
      PROVE  IInv' /\ (Passes(c) \/ (CoinsStay /\ \E r : Asks(c, r)))
  BY <1>2, CallAsks
<1>3. ASSUME NEW c \in Call, Submit(c) \/ Refused(c) \/ Interrupted(c)
      PROVE  IInv' /\ Passes(c)
  BY <1>3, CallPasses
<1>4. ASSUME NEW c \in Call, Finalize(c) \/ BatchSettles(c)
      PROVE  IInv' /\ Pays(c)
  BY <1>4, FinalizePays, BatchPays
<1>5. ASSUME NEW k \in TxIds, Sweep(k)
      PROVE  IInv' /\ UNCHANGED <<Balance, call, moved>>
  BY <1>5, SweepKeeps
<1> QED
  BY <1>1, <1>2, <1>3, <1>4, <1>5 DEF Next

\* The empty wallet.
LEMMA InitIInv ==
    ASSUME Init
    PROVE  IInv
<1>1. Value({}) = 0 /\ IsFiniteSet({})
  BY ValueEmpty, FS_EmptySet
<1>2. Idle \in CallType /\ Idle.pc = "idle" /\ Idle.inputs = {} /\ Idle.utxos = {}
      /\ Idle.outputs.out = 0 /\ Idle.outputs.vtxo = 0 /\ Idle.outputs.utxo = 0
  BY DEF Idle, CallType, Outputs
<1>3. \A c \in Call : call[c] = Idle
  BY DEF Init
<1>4. TypeOK
  <2>1. call \in [Call -> CallType]
    BY <1>2 DEF Init
  <2>2. \A c \in Call : call[c].inputs = {}
    BY <1>2, <1>3
  <2>3. txs \in 0 .. MaxTx /\ batch \in SpentBy /\ faults \in 0 .. MaxFaults /\ unusual \in BOOLEAN
    <3>1. MaxTx \in Nat /\ MaxFaults \in Nat
      BY OffchainAssumption
    <3>2. txs = 0 /\ batch = 0 /\ faults = 0 /\ unusual = FALSE
      BY DEF Init
    <3>3. txs \in 0 .. MaxTx /\ batch \in SpentBy /\ faults \in 0 .. MaxFaults
      BY <3>1, <3>2 DEF SpentBy
    <3> QED
      BY <3>2, <3>3
  <2> QED
    BY <2>1, <2>2, <2>3 DEF Init, TypeOK
<1>5. CoinsKnown
  BY <1>1 DEF Init, CoinsKnown
<1>6. CallsBalance
  BY <1>1, <1>2, <1>3 DEF Init, CallsBalance
<1>7. InputsReserved /\ SoonestAreSpent
  BY <1>2, <1>3 DEF InputsReserved, SoonestAreSpent
<1> QED
  BY <1>4, <1>5, <1>6, <1>7 DEF IInv

\* The invariant is about the variables alone.
LEMMA StutterIInv ==
    ASSUME IInv, UNCHANGED vars
    PROVE  IInv'
BY DEF IInv, vars, TypeOK, CoinsKnown, CallsBalance, InputsReserved, SoonestAreSpent

\* The coins a call holds were listed unspent and balance what it asks for, and
\* the server holds what was submitted for one call: every step keeps this.
THEOREM WalletInvariant == Spec => []IInv
<1>1. Init => IInv
  BY InitIInv
<1>2. IInv /\ [Next]_vars => IInv'
  BY Steps, StutterIInv
<1> QED
  BY <1>1, <1>2, PTL DEF Spec

\* Every coin, call and reservation is of its type, outpoints are unique and
\* only unspent vtxos are reserved.
THEOREM WalletTypeCorrect == Spec => []TypeOK
<1>1. IInv => TypeOK
  BY DEF IInv
<1> QED
  BY <1>1, WalletInvariant, PTL

\* sendBitcoin spends the coins that expire first, and no more than it needs.
THEOREM PaymentsSpendSoonest == Spec => []SoonestAreSpent
<1>1. IInv => SoonestAreSpent
  BY DEF IInv
<1> QED
  BY <1>1, WalletInvariant, PTL

\* A step of the wallet's calls is a step of Transfer, or none.
LEMMA StepTransfers ==
    ASSUME IInv, Next
    PROVE  [Abstract!Next]_(Abstract!transferVars)
<1> DEFINE asked == [c \in Call |-> Asked(c)]
           returned == {c \in Call : call[c].pc = "returned"}
<1>0. CallsBalance
  BY DEF IInv
<1>1. CASE Balance' > Balance /\ UNCHANGED <<call, moved>>
  <2>1. asked' = asked /\ returned' = returned
    BY <1>1 DEF Asked
  <2>2. Abstract!Income
    BY <1>1, <2>1 DEF Abstract!Income
  <2> QED
    BY <2>2 DEF Abstract!Next
<1>2. ASSUME NEW c \in Call, Pays(c)
      PROVE  Abstract!Move(c)
  <2>1. PICK pc \in {"returned", "threw"} : Moves(c, pc)
    BY <1>2 DEF Pays
  <2>2. asked' = asked
    BY <2>1 DEF Moves, Asked
  <2>3. returned' = IF pc = "returned" THEN returned \cup {c} ELSE returned
    BY <1>2, <2>1 DEF Moves, Pays
  <2>4. asked[c] = Asked(c)
    OBVIOUS
  <2> QED
    BY <1>2, <2>2, <2>3, <2>4 DEF Abstract!Move, Pays
<1>3. ASSUME NEW c \in Call, Passes(c)
      PROVE  UNCHANGED Abstract!transferVars
  <2>1. PICK pc \in {"submitted", "threw"} : Moves(c, pc)
    BY <1>3 DEF Passes
  <2>2. asked' = asked
    BY <2>1 DEF Moves, Asked
  <2>3. returned' = returned
    BY <1>3, <2>1 DEF Moves, Passes
  <2>4. Balance' = Balance /\ moved' = moved
    BY <1>3 DEF Passes, CoinsStay, Balance, Spendable, Recoverable, Unspent
  <2> QED
    BY <2>2, <2>3, <2>4 DEF Abstract!transferVars
<1>4. ASSUME NEW c \in Call, CoinsStay, \E r : Asks(c, r)
      PROVE  Abstract!Ask(c, asked'[c])
  <2>1. PICK r : Asks(c, r)
    BY <1>4
  <2>2. /\ \A d \in Call : d # c => call'[d] = call[d]
        /\ call'[c].pc # "returned" /\ call[c].pc = "idle" /\ call[c] = Idle /\ c \notin moved
    BY <1>0, <2>1 DEF Asks, CallsBalance, IInv, TypeOK
  <2>3. Asked(c) = 0 /\ asked[c] = 0
    BY <2>2 DEF Asked, Idle
  <2>4. asked' = [asked EXCEPT ![c] = asked'[c]]
    BY <2>2 DEF Asked
  <2>5. returned' = returned
    BY <2>2
  <2>6. Balance' = Balance /\ moved' = moved
    BY <1>4 DEF CoinsStay, Balance, Spendable, Recoverable, Unspent
  <2> QED
    BY <2>2, <2>3, <2>4, <2>5, <2>6 DEF Abstract!Ask
<1>5. CASE UNCHANGED <<Balance, call, moved>>
  BY <1>5 DEF Asked, Abstract!transferVars
<1>6. \/ Balance' > Balance /\ UNCHANGED <<call, moved>>
      \/ UNCHANGED <<Balance, call, moved>>
      \/ \E c \in Call : Pays(c) \/ Passes(c) \/ (CoinsStay /\ \E r : Asks(c, r))
  BY Steps
<1> QED
  BY <1>1, <1>2, <1>3, <1>4, <1>6, <1>5 DEF Abstract!Next

\* Whatever the order of concurrent calls, lost answers and crashes, a call
\* takes what it was asked for out of the wallet at once and at most once, one
\* that returns has done so, and nothing else makes the wallet poorer.
THEOREM WalletTransfers == Spec => TransferSpec
<1>1. Init => Abstract!Init
  <2> SUFFICES ASSUME Init PROVE Abstract!Init
    OBVIOUS
  <2>1. Balance = 0
    <3>1. Spendable \cup Recoverable = {} /\ Unspent(boarding) = {}
      BY DEF Init, Spendable, Recoverable, Unspent
    <3> QED
      BY <3>1, ValueEmpty DEF Balance
  <2>2. \A c \in Call : Asked(c) = 0 /\ call[c].pc = "idle"
    BY DEF Init, Idle, Asked
  <2> QED
    BY <2>1, <2>2 DEF Init, Abstract!Init
<1>2. IInv /\ [Next]_vars => [Abstract!Next]_(Abstract!transferVars)
  <2>1. ASSUME IInv, Next
        PROVE  [Abstract!Next]_(Abstract!transferVars)
    BY <2>1, StepTransfers
  <2>2. ASSUME UNCHANGED vars
        PROVE  UNCHANGED Abstract!transferVars
    BY <2>2 DEF vars, Abstract!transferVars, Balance, Spendable, Recoverable, Unspent, Asked
  <2> QED
    BY <2>1, <2>2
<1>3. Spec => []IInv
  BY WalletInvariant
<1>4. Init /\ [][Next]_vars /\ []IInv => Abstract!Init /\ [][Abstract!Next]_(Abstract!transferVars)
  BY <1>1, <1>2, PTL
<1> QED
  BY <1>3, <1>4 DEF Spec, TransferSpec, Abstract!Spec

-----------------------------------------------------------------------------
(* What the operators of the history compute, for lists and sets of any length. *)

\* A finite set of integers has a greatest one.
LEMMA Greatest ==
    ASSUME NEW S, IsFiniteSet(S), S \subseteq Int, S # {}
    PROVE  Max(S) \in S
<1> DEFINE X == {s \in SUBSET S : s = {} \/ \E x \in s : \A y \in s : x >= y}
<1>1. ASSUME NEW T \in SUBSET S, NEW a \in S \ T, T \in X
      PROVE  T \cup {a} \in X
  <2>1. CASE T = {}
    BY <2>1
  <2>2. CASE T # {}
    <3>1. PICK x \in T : \A y \in T : x >= y
      BY <1>1, <2>2
    <3>2. x \in Int /\ a \in Int /\ \A y \in T : y \in Int
      OBVIOUS
    <3>3. CASE a >= x
      <4>1. \A y \in T \cup {a} : a >= y
        BY <3>1, <3>2, <3>3
      <4> QED
        BY <4>1
    <3>4. CASE ~(a >= x)
      <4>1. \A y \in T \cup {a} : x >= y
        BY <3>1, <3>2, <3>4
      <4> QED
        BY <4>1
    <3> QED
      BY <3>3, <3>4
  <2> QED
    BY <2>1, <2>2
<1>2. S \in X
  <2>1. {} \in X
    OBVIOUS
  <2> HIDE DEF X
  <2> QED
    BY <1>1, <2>1, SetInduction
<1> QED
  BY <1>2 DEF Max

\* The fold that adds the amounts of a set of transactions.
IsAmounts(it, S) ==
    it = [s \in SUBSET S |-> IF s = {} THEN 0 ELSE Some(s).amount + it[s \ {Some(s)}]]
AmountsOf(S) == CHOOSE it : IsAmounts(it, S)

\* It is what the library's fold computes.
LEMMA ExpandAmounts ==
    ASSUME NEW S
    PROVE  MapThenSumSet(LAMBDA tx : tx.amount, S) = AmountsOf(S)[S]
BY DEF MapThenSumSet, MapThenFoldSet, AmountsOf, IsAmounts, Some

\* It is the sum of the amounts.
LEMMA SumOfAmounts ==
    ASSUME NEW S, IsFiniteSet(S)
    PROVE  MapThenSumSet(LAMBDA tx : tx.amount, S) = SumFunctionOnSet([tx \in S |-> tx.amount], S)
<1> DEFINE f == [tx \in S |-> tx.amount]
<1>1. \A s \in SUBSET S : s # {} => f[Some(s)] = Some(s).amount
  BY SomeIn
<1>2. \A it : IsAmounts(it, S) <=> IsIter(it, f, S)
  <2> HIDE DEF f
  <2>1. ASSUME NEW it
        PROVE  [s \in SUBSET S |-> IF s = {} THEN 0 ELSE Some(s).amount + it[s \ {Some(s)}]]
                 = [s \in SUBSET S |-> IF s = {} THEN 0 ELSE f[Some(s)] + it[s \ {Some(s)}]]
    BY <1>1
  <2> QED
    BY <2>1 DEF IsAmounts, IsIter
<1> HIDE DEF f
<1>3. IsAmounts(AmountsOf(S), S)
  BY <1>2, IterExists DEF AmountsOf
<1>4. AmountsOf(S)[S] = Iter(f, S)[S]
  BY <1>2, <1>3, IterExists, IterAgree
<1> QED
  BY <1>4, Expand, ExpandAmounts DEF f

\* The fold that adds the amounts of a sequence of transactions.
IsTotal(it, q, T) ==
    it = [s \in SUBSET T |-> IF s = {} THEN 0 ELSE it[s \ {Max(s)}] + q[Max(s)].amount]
TotalOf(q) == CHOOSE it : IsTotal(it, q, DOMAIN q)

\* It is what the library's fold computes.
LEMMA ExpandTotal ==
    ASSUME NEW q
    PROVE  FoldLeft(LAMBDA sum, tx : sum + tx.amount, 0, q) = TotalOf(q)[DOMAIN q]
BY DEF FoldLeft, MapThenFoldSet, TotalOf, IsTotal

\* It is the sum of the amounts.
LEMMA TotalOfAmounts ==
    ASSUME NEW n \in Nat, NEW q, DOMAIN q = 1 .. n, \A i \in 1 .. n : q[i].amount \in Int
    PROVE  FoldLeft(LAMBDA sum, tx : sum + tx.amount, 0, q)
             = SumFunctionOnSet([i \in 1 .. n |-> q[i].amount], 1 .. n)
<1> DEFINE f == [i \in 1 .. n |-> q[i].amount]
           D == 1 .. n
           sums == [s \in SUBSET D |-> SumFunctionOnSet(f, s)]
<1>0. IsFiniteSet(D) /\ D \subseteq Int /\ \A i \in D : f[i] = q[i].amount /\ f[i] \in Int
  BY FS_Interval
<1> HIDE DEF f, D
<1>1. \A s \in SUBSET D : s # {} => Max(s) \in s
  BY <1>0, Greatest, FS_Subset
<1>2. \A s \in SUBSET D : sums[s] = IF s = {} THEN 0 ELSE sums[s \ {Max(s)}] + q[Max(s)].amount
  <2> SUFFICES ASSUME NEW s \in SUBSET D
               PROVE  sums[s] = IF s = {} THEN 0 ELSE sums[s \ {Max(s)}] + q[Max(s)].amount
    OBVIOUS
  <2>1. CASE s = {}
    BY <2>1, SumEmpty
  <2>2. CASE s # {}
    <3> DEFINE m == Max(s)
               w == s \ {m}
    <3>1. m \in s /\ IsFiniteSet(s) /\ (\A x \in s : f[x] \in Int) /\ IsFiniteSet(w) /\ w \in SUBSET D
          /\ f[m] = q[m].amount
      BY <1>0, <1>1, <2>2, FS_Subset
    <3> HIDE DEF m
    <3>2. SumFunctionOnSet(f, s) = f[m] + SumFunctionOnSet(f, w)
      BY <3>1, SumRemove
    <3>3. SumFunctionOnSet(f, w) \in Int /\ f[m] \in Int
      BY <3>1, SumType
    <3>4. SumFunctionOnSet(f, s) = SumFunctionOnSet(f, w) + q[m].amount
      BY <3>1, <3>2, <3>3
    <3>5. sums[s] = sums[w] + q[m].amount
      BY <3>1, <3>4
    <3> QED
      BY <2>2, <3>5 DEF m
  <2> QED
    BY <2>1, <2>2
<1>3. IsTotal(sums, q, D)
  <2>1. sums = [s \in SUBSET D |-> sums[s]]
    OBVIOUS
  <2> HIDE DEF sums
  <2> QED
    BY <1>2, <2>1 DEF IsTotal
<1>4. IsTotal(TotalOf(q), q, D)
  <2>1. DOMAIN q = D
    BY DEF D
  <2> HIDE DEF sums
  <2> QED
    BY <1>3, <2>1 DEF TotalOf
<1>5. TotalOf(q)[D] = sums[D]
  <2> DEFINE it == TotalOf(q)
             X == {s \in SUBSET D : it[s] = sums[s]}
  <2>1. IsTotal(it, q, D)
    BY <1>4
  <2> HIDE DEF sums, it
  <2>2. ASSUME NEW s \in SUBSET D, \A t \in SUBSET s : t # s => t \in X
        PROVE  s \in X
    <3>1. it[s] = IF s = {} THEN 0 ELSE it[s \ {Max(s)}] + q[Max(s)].amount
      BY <2>1 DEF IsTotal
    <3>2. sums[s] = IF s = {} THEN 0 ELSE sums[s \ {Max(s)}] + q[Max(s)].amount
      BY <1>2
    <3>3. s # {} => s \ {Max(s)} \in X
      <4>1. s # {} => s \ {Max(s)} \in SUBSET s /\ s \ {Max(s)} # s
        BY <1>1
      <4> QED
        BY <2>2, <4>1
    <3> QED
      BY <3>1, <3>2, <3>3
  <2>3. \A s \in SUBSET D : s \in X
    <3> HIDE DEF X
    <3> QED
      BY <1>0, <2>2, SubsetInduction
  <2> QED
    BY <2>3 DEF it
<1> QED
  BY <1>5, ExpandTotal DEF D, f

\* What the receipts of a history add up to.
Total(q) == FoldLeft(LAMBDA sum, tx : sum + tx.amount, 0, q)
Entries == [txid : Int, amount : Int]

\* No receipt is nothing received.
LEMMA TotalEmpty == Total(<<>>) = 0
<1> DEFINE q == <<>>
           f == [i \in 1 .. 0 |-> q[i].amount]
<1>1. DOMAIN q = 1 .. 0 /\ 1 .. 0 = {}
  OBVIOUS
<1>2. Total(q) = SumFunctionOnSet(f, 1 .. 0)
  <2>1. 0 \in Nat /\ \A i \in 1 .. 0 : q[i].amount \in Int
    BY <1>1
  <2> HIDE DEF q
  <2> QED
    BY <1>1, <2>1, TotalOfAmounts DEF Total
<1> QED
  BY <1>1, <1>2, SumEmpty

\* A receipt more.
LEMMA TotalAppend ==
    ASSUME NEW q \in Seq(Entries), NEW tx \in Entries
    PROVE  Total(Append(q, tx)) = Total(q) + tx.amount /\ Total(q) \in Int
<1> DEFINE n == Len(q)
           r == Append(q, tx)
           f == [i \in 1 .. n |-> q[i].amount]
           g == [i \in 1 .. n + 1 |-> r[i].amount]
<1>1. n \in Nat /\ DOMAIN q = 1 .. n /\ \A i \in 1 .. n : q[i] \in Entries
  BY LenProperties, ElementOfSeq
<1>2. DOMAIN r = 1 .. n + 1 /\ r[n + 1] = tx /\ \A i \in 1 .. n : r[i] = q[i]
  <2>1. r \in Seq(Entries) /\ Len(r) = n + 1
    BY AppendProperties
  <2> QED
    BY <2>1, AppendProperties, LenProperties
<1>3. /\ \A i \in 1 .. n : q[i].amount \in Int
      /\ \A i \in 1 .. n + 1 : r[i].amount \in Int
  <2>1. \A e \in Entries : e.amount \in Int
    BY DEF Entries
  <2>2. \A i \in 1 .. n + 1 : i \in 1 .. n \/ i = n + 1
    BY <1>1
  <2> HIDE DEF n, r
  <2> QED
    BY <1>1, <1>2, <2>1, <2>2
<1> HIDE DEF n, r
<1>4. Total(q) = SumFunctionOnSet(f, 1 .. n)
  <2> HIDE DEF Entries
  <2> QED
    BY <1>1, <1>3, TotalOfAmounts DEF Total
<1>5. Total(r) = SumFunctionOnSet(g, 1 .. n + 1)
  <2> DEFINE m == n + 1
  <2>1. m \in Nat /\ DOMAIN r = 1 .. m /\ \A i \in 1 .. m : r[i].amount \in Int
    BY <1>1, <1>2, <1>3
  <2> HIDE DEF m
  <2>2. Total(r) = SumFunctionOnSet([i \in 1 .. m |-> r[i].amount], 1 .. m)
    BY <2>1, TotalOfAmounts DEF Total
  <2> QED
    BY <2>2 DEF m
<1>6. /\ 1 .. n + 1 = (1 .. n) \cup {n + 1} /\ n + 1 \notin 1 .. n /\ IsFiniteSet(1 .. n)
      /\ g[n + 1] = tx.amount /\ \A i \in (1 .. n) \cup {n + 1} : g[i] \in Int
      /\ \A i \in 1 .. n : f[i] = g[i] /\ f[i] \in Int
  <2>1. 1 .. n + 1 = (1 .. n) \cup {n + 1} /\ n + 1 \notin 1 .. n
    BY <1>1
  <2>2. IsFiniteSet(1 .. n)
    BY <1>1, FS_Interval
  <2>3. n + 1 \in 1 .. n + 1 /\ \A i \in 1 .. n : i \in 1 .. n + 1
    BY <2>1
  <2> QED
    BY <1>2, <1>3, <2>1, <2>2, <2>3
<1> HIDE DEF f, g
<1>7. SumFunctionOnSet(g, (1 .. n) \cup {n + 1}) = g[n + 1] + SumFunctionOnSet(g, 1 .. n)
  <2> DEFINE D == 1 .. n
             m == n + 1
  <2>1. IsFiniteSet(D) /\ m \notin D /\ \A i \in D \cup {m} : g[i] \in Int
    BY <1>6
  <2> HIDE DEF D, m
  <2>2. SumFunctionOnSet(g, D \cup {m}) = g[m] + SumFunctionOnSet(g, D)
    BY <2>1, SumAdd
  <2> QED
    BY <2>2 DEF D, m
<1>8. SumFunctionOnSet(f, 1 .. n) = SumFunctionOnSet(g, 1 .. n)
  <2> DEFINE D == 1 .. n
  <2>1. IsFiniteSet(D) /\ \A i \in D : f[i] = g[i]
    BY <1>6
  <2> HIDE DEF D
  <2>2. SumFunctionOnSet(f, D) = SumFunctionOnSet(g, D)
    BY <2>1, SumSame
  <2> QED
    BY <2>2 DEF D
<1>9. SumFunctionOnSet(f, 1 .. n) \in Int /\ tx.amount \in Int
  BY <1>6, SumType DEF Entries
<1>10. Total(r) = g[n + 1] + SumFunctionOnSet(g, 1 .. n) /\ g[n + 1] = tx.amount
  BY <1>5, <1>6, <1>7
<1>11. Total(r) = Total(q) + tx.amount /\ Total(q) \in Int
  BY <1>4, <1>8, <1>9, <1>10
<1> QED
  BY <1>11 DEF r

\* The fold that explains the vtxos, of the indices T of vs.
IsHistory(it, vs, spent, batches, T) ==
    it = [s \in SUBSET T |-> IF s = {} THEN [left |-> spent, txs |-> <<>>]
                             ELSE Explain(it[s \ {Max(s)}], vs[Max(s)], batches)]
HistoryOf(vs, spent, batches, T) == CHOOSE it : IsHistory(it, vs, spent, batches, T)

\* It is what Received computes.
LEMMA ExpandReceived ==
    ASSUME NEW vs, NEW spent, NEW batches
    PROVE  Received(vs, spent, batches) = HistoryOf(vs, spent, batches, DOMAIN vs)[DOMAIN vs].txs
BY DEF Received, FoldLeft, MapThenFoldSet, HistoryOf, IsHistory

\* Indices of vtxos: the greatest of some is one of them.
Indices(S) == IsFiniteSet(S) /\ S \subseteq Int

\* Without it they are fewer.
LEMMA GreatestIn ==
    ASSUME NEW D, Indices(D), NEW s \in SUBSET D, s # {}
    PROVE  Max(s) \in s /\ s \ {Max(s)} \in SUBSET s /\ s \ {Max(s)} # s
BY Greatest, FS_Subset DEF Indices

\* Two such folds agree where both are defined.
LEMMA HistoryAgree ==
    ASSUME NEW vs, NEW spent, NEW batches,
           NEW S, Indices(S), NEW T, S \subseteq T,
           NEW g, IsHistory(g, vs, spent, batches, S),
           NEW h, IsHistory(h, vs, spent, batches, T)
    PROVE  g[S] = h[S]
<1> DEFINE X == {s \in SUBSET S : g[s] = h[s]}
<1>1. ASSUME NEW s \in SUBSET S, \A t \in SUBSET s : t # s => t \in X
      PROVE  s \in X
  <2>1. /\ g[s] = IF s = {} THEN [left |-> spent, txs |-> <<>>]
                  ELSE Explain(g[s \ {Max(s)}], vs[Max(s)], batches)
        /\ h[s] = IF s = {} THEN [left |-> spent, txs |-> <<>>]
                  ELSE Explain(h[s \ {Max(s)}], vs[Max(s)], batches)
    BY DEF IsHistory
  <2>2. s # {} => s \ {Max(s)} \in X
    <3>1. s # {} => s \ {Max(s)} \in SUBSET s /\ s \ {Max(s)} # s
      BY GreatestIn
    <3> QED
      BY <1>1, <3>1
  <2> QED
    BY <2>1, <2>2
<1>2. \A s \in SUBSET S : s \in X
  <2> HIDE DEF X
  <2> QED
    BY <1>1, SubsetInduction DEF Indices
<1> QED
  BY <1>2

\* The fold exists, so that CHOOSE finds it.
LEMMA HistoryExists ==
    ASSUME NEW D, Indices(D), NEW vs, NEW spent, NEW batches
    PROVE  IsHistory(HistoryOf(vs, spent, batches, D), vs, spent, batches, D)
<1> DEFINE Is(it, T) == IsHistory(it, vs, spent, batches, T)
           Of(T) == HistoryOf(vs, spent, batches, T)
           base == [left |-> spent, txs |-> <<>>]
           X == {T \in SUBSET D : Is(Of(T), T)}
<1>1. ASSUME NEW T \in SUBSET D, \A t \in SUBSET T : t # T => t \in X
      PROVE  T \in X
  <2> DEFINE G(s) == IF s = {} THEN base
                     ELSE Explain(Of(s \ {Max(s)})[s \ {Max(s)}], vs[Max(s)], batches)
             it == [s \in SUBSET T |-> G(s)]
  <2>1. ASSUME NEW s \in SUBSET T, s # {}
        PROVE  s \ {Max(s)} \in SUBSET T /\ s \ {Max(s)} # T /\ s \ {Max(s)} \subseteq s
    BY <2>1, GreatestIn
  <2>2. ASSUME NEW u \in SUBSET T, u # T
        PROVE  Of(u)[u] = G(u)
    <3>1. Is(Of(u), u)
      <4>1. u \in X
        BY <1>1, <2>2
      <4> HIDE DEF Is, Of
      <4> QED
        BY <4>1
    <3>2. Of(u)[u] = IF u = {} THEN base
                     ELSE Explain(Of(u)[u \ {Max(u)}], vs[Max(u)], batches)
      BY <3>1 DEF IsHistory
    <3>3. u # {} => Of(u \ {Max(u)})[u \ {Max(u)}] = Of(u)[u \ {Max(u)}]
      <4> SUFFICES ASSUME u # {}
                   PROVE  Of(u \ {Max(u)})[u \ {Max(u)}] = Of(u)[u \ {Max(u)}]
        OBVIOUS
      <4> DEFINE w == u \ {Max(u)}
      <4>1. w \in SUBSET T /\ w # T /\ w \subseteq u
        BY <2>1
      <4>2. Is(Of(w), w)
        BY <1>1, <4>1
      <4>3. Indices(w)
        BY <4>1, FS_Subset DEF Indices
      <4> DEFINE g == Of(w)
                 h == Of(u)
      <4>4. IsHistory(g, vs, spent, batches, w) /\ IsHistory(h, vs, spent, batches, u)
        BY <3>1, <4>2
      <4> HIDE DEF w, Of, g, h
      <4>5. g[w] = h[w]
        <5>1. w \subseteq u
          BY <4>1
        <5> HIDE DEF Is, G, it, X, base
        <5> QED
          BY <4>3, <4>4, <5>1, HistoryAgree
      <4>6. Of(w)[w] = Of(u)[w]
        BY <4>5 DEF g, h
      <4> QED
        BY <4>6 DEF w
    <3> HIDE DEF Of
    <3> QED
      BY <3>2, <3>3
  <2>3. ASSUME NEW s \in SUBSET T
        PROVE  it[s] = IF s = {} THEN base ELSE Explain(it[s \ {Max(s)}], vs[Max(s)], batches)
    <3>1. s # {} => it[s \ {Max(s)}] = G(s \ {Max(s)})
      BY <2>1
    <3>2. s # {} => it[s \ {Max(s)}] = Of(s \ {Max(s)})[s \ {Max(s)}]
      <4> HIDE DEF it, G, Of
      <4> QED
        BY <2>1, <2>2, <3>1
    <3>3. it[s] = G(s)
      OBVIOUS
    <3> HIDE DEF it, Of
    <3> QED
      BY <3>2, <3>3
  <2>4. Is(it, T)
    <3>1. it = [s \in SUBSET T |-> it[s]]
      OBVIOUS
    <3> HIDE DEF it
    <3> QED
      BY <2>3, <3>1 DEF IsHistory
  <2>5. \E i : IsHistory(i, vs, spent, batches, T)
    <3> HIDE DEF it
    <3> QED
      BY <2>4
  <2>6. Is(Of(T), T)
    BY <2>5 DEF HistoryOf
  <2> QED
    BY <2>6
<1>2. \A T \in SUBSET D : T \in X
  <2> HIDE DEF X
  <2> QED
    BY <1>1, SubsetInduction DEF Indices
<1> QED
  BY <1>2

\* Taken in its turn, a vtxo that the coins e explain leaves the others as they
\* are and adds r to the receipts.
Takes(vtxo, e, r, spent, batches) ==
    \A left \in SUBSET spent, told \in Seq(Entries) : e \subseteq left =>
        LET acc == Explain([left |-> left, txs |-> told], vtxo, batches)
        IN  /\ acc = [left |-> acc.left, txs |-> acc.txs]
            /\ acc.left \in {left, left \ e} /\ acc.txs \in Seq(Entries)
            /\ Total(acc.txs) = Total(told) + r

\* The receipts add up to what is taken vtxo by vtxo.
LEMMA ReceivedTotal ==
    ASSUME NEW n \in Nat, NEW vs, DOMAIN vs = 1 .. n, NEW spent, NEW batches,
           NEW e \in [1 .. n -> SUBSET spent], NEW r \in [1 .. n -> Int],
           \A i, j \in 1 .. n : i # j => e[i] \cap e[j] = {},
           \A i \in 1 .. n : Takes(vs[i], e[i], r[i], spent, batches)
    PROVE  Total(Received(vs, spent, batches)) = SumFunctionOnSet(r, 1 .. n)
<1> DEFINE D == 1 .. n
           it == HistoryOf(vs, spent, batches, D)
           base == [left |-> spent, txs |-> <<>>]
           Good(acc, s) ==
               /\ acc = [left |-> acc.left, txs |-> acc.txs]
               /\ acc.left \in SUBSET spent /\ \A j \in D \ s : e[j] \subseteq acc.left
               /\ acc.txs \in Seq(Entries)
               /\ Total(acc.txs) = SumFunctionOnSet(r, s)
           X == {s \in SUBSET D : Good(it[s], s)}
<1>1. Indices(D) /\ IsFiniteSet(D) /\ \A x \in D : r[x] \in Int
  BY FS_Interval DEF Indices
<1>2. IsHistory(it, vs, spent, batches, D)
  <2> HIDE DEF D
  <2> QED
    BY <1>1, HistoryExists
<1>3. \A s \in SUBSET D : it[s] = IF s = {} THEN base ELSE Explain(it[s \ {Max(s)}], vs[Max(s)], batches)
  <2> HIDE DEF it, D
  <2> QED
    BY <1>2 DEF IsHistory
<1> HIDE DEF it
<1>4. ASSUME NEW s \in SUBSET D, \A t \in SUBSET s : t # s => t \in X
      PROVE  s \in X
  <2>1. CASE s = {}
    <3>1. it[s] = base
      BY <1>3, <2>1
    <3>2. Good(base, {})
      <4>1. base.left = spent /\ base.txs = <<>>
        OBVIOUS
      <4>2. \A j \in D : e[j] \subseteq spent
        OBVIOUS
      <4> QED
        BY <4>1, <4>2, TotalEmpty, SumEmpty
    <3> HIDE DEF base, Good
    <3> QED
      BY <2>1, <3>1, <3>2
  <2>2. CASE s # {}
    <3> DEFINE m == Max(s)
               w == s \ {m}
               acc == it[w]
               new == Explain(acc, vs[m], batches)
    <3>1. m \in s /\ m \in D /\ w \in SUBSET s /\ w # s /\ w \in SUBSET D /\ s = w \cup {m} /\ m \notin w
      <4> HIDE DEF D
      <4> QED
        BY <1>1, <2>2, GreatestIn
    <3>2. Good(acc, w)
      <4>1. w \in X
        BY <1>4, <3>1
      <4> HIDE DEF Good
      <4> QED
        BY <4>1
    <3>3. it[s] = new
      BY <1>3, <2>2
    <3> HIDE DEF new, acc
    <3>4. new = Explain([left |-> acc.left, txs |-> acc.txs], vs[m], batches)
      BY <3>2 DEF new
    <3>5. e[m] \subseteq acc.left /\ acc.left \in SUBSET spent /\ acc.txs \in Seq(Entries)
      BY <3>1, <3>2
    <3>6. /\ new = [left |-> new.left, txs |-> new.txs]
          /\ new.left \in {acc.left, acc.left \ e[m]} /\ new.txs \in Seq(Entries)
          /\ Total(new.txs) = Total(acc.txs) + r[m]
      <4>1. Takes(vs[m], e[m], r[m], spent, batches)
        BY <3>1
      <4> HIDE DEF Good, D, w, m
      <4> QED
        BY <3>4, <3>5, <4>1, Zenon DEF Takes
    <3>7. SumFunctionOnSet(r, s) = SumFunctionOnSet(r, w) + r[m]
      <4>1. IsFiniteSet(w) /\ (\A x \in w \cup {m} : r[x] \in Int) /\ r[m] \in Int
        BY <1>1, <3>1, FS_Subset
      <4> HIDE DEF w, m
      <4>2. SumFunctionOnSet(r, w \cup {m}) = r[m] + SumFunctionOnSet(r, w)
        BY <3>1, <4>1, SumAdd
      <4>3. SumFunctionOnSet(r, w) \in Int
        BY <4>1, SumType
      <4> QED
        BY <3>1, <4>1, <4>2, <4>3
    <3>8. \A j \in D \ s : e[j] \subseteq new.left
      <4> TAKE j \in D \ s
      <4>1. j \in D \ w /\ j # m /\ j \in D
        BY <3>1
      <4>2. e[j] \subseteq acc.left /\ e[j] \cap e[m] = {}
        BY <3>1, <3>2, <4>1
      <4> HIDE DEF w, m, Good
      <4> QED
        BY <3>6, <4>2
    <3>9. Good(new, s)
      <4>1. new.left \in SUBSET spent
        BY <3>5, <3>6
      <4>2. Total(new.txs) = SumFunctionOnSet(r, s)
        BY <3>2, <3>6, <3>7
      <4> HIDE DEF w, m, D
      <4> QED
        BY <3>6, <3>8, <4>1, <4>2
    <3> HIDE DEF Good
    <3> QED
      BY <3>3, <3>9
  <2> QED
    BY <2>1, <2>2
<1>5. D \in X
  <2>1. \A s \in SUBSET D : s \in X
    <3> HIDE DEF X, D
    <3> QED
      BY <1>1, <1>4, SubsetInduction
  <2> QED
    BY <2>1
<1>6. Received(vs, spent, batches) = it[D].txs
  BY ExpandReceived DEF it
<1> QED
  BY <1>5, <1>6

-----------------------------------------------------------------------------
(* What the history tells, vtxo by vtxo and transaction by transaction. *)

Spent == {v \in vtxos : ~IsSpendable(v)}
TakenBy(txid) == {w \in Spent : Spender(w) = txid}
Made(txid) == {v \in vtxos : Origin(v) = txid}
OfBoarding(v) == IsLeaf(v) /\ Origin(v) \in BoardingBatches(boarding)

\* What the invariant tells of one coin and of two.
LEMMA Told ==
    ASSUME TypeOK, SpentOnce, OriginsTold
    PROVE  /\ \A v \in vtxos : Origin(v) \in TxIds /\ v.value \in Nat \ {0}
           /\ \A v \in vtxos : IsLeaf(v) => v.commitments = {Origin(v)}
           /\ \A w \in vtxos : Spender(w) \in 0 .. MaxTx /\ (IsSpendable(w) <=> Spender(w) = 0)
           /\ \A v, w \in vtxos : IsLeaf(v) =>
                 /\ w.settledBy = Origin(v) <=> Spender(w) = Origin(v)
                 /\ w.arkTxId # v.txid /\ w.settledBy # v.txid
           /\ \A v, w \in vtxos : ~IsLeaf(v) =>
                 /\ Origin(v) = v.txid
                 /\ w.arkTxId = v.txid <=> Spender(w) = Origin(v)
<1>1. /\ \A v \in vtxos : v \in VtxoType
      /\ MaxTx \in Nat
  BY OffchainAssumption DEF TypeOK
<1>2. \A v \in vtxos : /\ v.txid \in Nat \ {0} /\ v.txid \in TxIds /\ v.value \in Nat \ {0}
                       /\ v.settledBy \in 0 .. MaxTx /\ v.arkTxId \in 0 .. MaxTx
                       /\ v.commitments \subseteq TxIds
  BY <1>1 DEF VtxoType, TxIds, SpentBy
<1>3. \A v \in vtxos : IsLeaf(v) => v.commitments = {Origin(v)}
  BY DEF OriginsTold
<1>4. \A w \in vtxos : w.settledBy = 0 \/ w.arkTxId = 0
  BY DEF SpentOnce
<1>5. \A v \in vtxos : Origin(v) \in TxIds
  <2> TAKE v \in vtxos
  <2>1. CASE IsLeaf(v)
    BY <1>2, <1>3, <2>1
  <2>2. CASE ~IsLeaf(v)
    BY <1>2, <2>2 DEF Origin
  <2> QED
    BY <2>1, <2>2
<1>7. \A w \in vtxos : /\ Spender(w) \in 0 .. MaxTx /\ (IsSpendable(w) <=> Spender(w) = 0)
                       /\ Spender(w) = IF w.settledBy # 0 THEN w.settledBy ELSE w.arkTxId
  BY <1>1, <1>2, <1>4 DEF Spender, IsSpendable
<1>8. ASSUME NEW v \in vtxos, NEW w \in vtxos, IsLeaf(v)
      PROVE  /\ w.settledBy = Origin(v) <=> Spender(w) = Origin(v)
             /\ w.arkTxId # v.txid /\ w.settledBy # v.txid
  <2>1. /\ Origin(v) \in Batches /\ v.txid \in Leaves
        /\ w.settledBy # 0 => w.settledBy \in Batches
        /\ w.arkTxId # 0 => w.arkTxId \in Payments
    BY <1>8 DEF Batches, Leaves, Payments
  <2>2. Batches \cap Payments = {} /\ Leaves \cap (Batches \cup Payments) = {}
    BY DEF OriginsTold
  <2>3. v.txid # 0 /\ Origin(v) # 0
    BY <1>1, <1>2, <1>5 DEF TxIds
  <2>4. w.arkTxId # v.txid /\ w.settledBy # v.txid /\ w.arkTxId # Origin(v)
    BY <2>1, <2>2, <2>3
  <2> QED
    BY <1>4, <1>7, <2>3, <2>4
<1>9. ASSUME NEW v \in vtxos, NEW w \in vtxos, ~IsLeaf(v)
      PROVE  /\ Origin(v) = v.txid
             /\ w.arkTxId = v.txid <=> Spender(w) = Origin(v)
  <2>1. Origin(v) = v.txid /\ v.txid # 0
    BY <1>2, <1>9 DEF Origin
  <2>2. /\ v.txid \in Payments
        /\ w.settledBy # 0 => w.settledBy \in Batches
    BY <1>9 DEF Batches, Payments
  <2>3. Batches \cap Payments = {}
    BY DEF OriginsTold
  <2>4. w.settledBy # v.txid
    BY <2>1, <2>2, <2>3
  <2> QED
    BY <1>4, <1>7, <2>1, <2>4
<1> QED
  BY <1>2, <1>3, <1>5, <1>7, <1>8, <1>9

\* What a vtxo of a batch that settled boarding utxos, or of another, is short of.
Receipt(v) ==
    IF OfBoarding(v) \/ v.value <= Value(TakenBy(Origin(v))) THEN 0
    ELSE v.value - Value(TakenBy(Origin(v)))

\* The coins that made a vtxo explain it.
LEMMA VtxoTakes ==
    ASSUME TypeOK, CoinsKnown, SpentOnce, OriginsTold, NEW v \in vtxos
    PROVE  /\ Takes(v, TakenBy(Origin(v)), Receipt(v), Spent, BoardingBatches(boarding))
           /\ Receipt(v) \in Nat
<1> DEFINE bb == BoardingBatches(boarding)
           e == TakenBy(Origin(v))
           r == Receipt(v)
<1>1. /\ Origin(v) \in TxIds /\ v.value \in Nat \ {0} /\ v.txid \in Int
      /\ IsLeaf(v) => v.commitments = {Origin(v)}
      /\ IsLeaf(v) <=> v.state # "preconfirmed"
  BY Told, OffchainAssumption DEF TypeOK, VtxoType, TxIds, IsLeaf
<1>2. Value(e) \in Nat
  <2>1. e \in SUBSET vtxos
    BY DEF TakenBy, Spent
  <2>2. IsCoins(vtxos)
    BY WalletCoins
  <2> HIDE DEF e
  <2> QED
    BY <2>1, <2>2, CoinsSubset, ValueNat
<1>3. r \in Nat
  BY <1>1, <1>2 DEF Receipt
<1>4. Value({}) = 0
  BY ValueEmpty
<1>5. ASSUME NEW left \in SUBSET Spent, NEW told \in Seq(Entries), e \subseteq left
      PROVE  LET acc == Explain([left |-> left, txs |-> told], v, bb)
             IN  /\ acc = [left |-> acc.left, txs |-> acc.txs]
                 /\ acc.left \in {left, left \ e} /\ acc.txs \in Seq(Entries)
                 /\ Total(acc.txs) = Total(told) + r
  <2> DEFINE old == [left |-> left, txs |-> told]
             acc == Explain(old, v, bb)
             tx == [txid |-> v.txid, amount |-> v.value - Value(e)]
             Good == /\ acc = [left |-> acc.left, txs |-> acc.txs]
                     /\ acc.left \in {left, left \ e} /\ acc.txs \in Seq(Entries)
                     /\ Total(acc.txs) = Total(told) + r
  <2>0. Total(told) \in Int /\ tx \in Entries
    <3>1. tx \in Entries
      BY <1>1, <1>2 DEF Entries
    <3> QED
      BY <3>1, TotalAppend
  <2>1. ASSUME OfBoarding(v)
        PROVE  Good
    <3>1. v.state # "preconfirmed" /\ v.commitments \cap bb # {}
      BY <1>1, <2>1 DEF OfBoarding
    <3>2. acc = old
      BY <3>1 DEF Explain
    <3>3. r = 0
      BY <2>1 DEF Receipt
    <3> QED
      BY <2>0, <3>2, <3>3
  <2>2. ASSUME ~OfBoarding(v),
               acc = IF v.value <= Value(e) THEN [left |-> left \ e, txs |-> told]
                     ELSE [left |-> left \ e, txs |-> Append(told, tx)]
        PROVE  Good
    <3> HIDE DEF acc
    <3>1. CASE v.value <= Value(e)
      <4>1. r = 0
        BY <3>1 DEF Receipt
      <4> QED
        BY <2>0, <2>2, <3>1, <4>1
    <3>2. CASE ~(v.value <= Value(e))
      <4>1. r = tx.amount
        BY <2>2, <3>2 DEF Receipt
      <4>2. Total(Append(told, tx)) = Total(told) + tx.amount /\ Append(told, tx) \in Seq(Entries)
        <5> HIDE DEF tx
        <5> QED
          BY <2>0, TotalAppend, AppendProperties
      <4> HIDE DEF tx, e, r
      <4> QED
        BY <2>2, <3>2, <4>1, <4>2
    <3> QED
      BY <3>1, <3>2
  <2>3. ASSUME ~OfBoarding(v), IsLeaf(v)
        PROVE  Good
    <3>1. ~(v.state # "preconfirmed" /\ v.commitments \cap bb # {})
      BY <1>1, <2>3 DEF OfBoarding
    <3>2. SpentInSettlement(left, v) = e
      <4>1. \A w \in left : w \in Spent /\ w \in vtxos
        BY DEF Spent
      <4>2. \A w \in left : w.settledBy \in v.commitments <=> Spender(w) = Origin(v)
        BY <1>1, <2>3, <4>1, Told
      <4> QED
        BY <1>1, <1>5, <2>3, <4>1, <4>2 DEF SpentInSettlement, TakenBy
    <3>3. SpentInPayment(left \ e, v) = {}
      <4>1. \A w \in left : w \in vtxos
        BY DEF Spent
      <4>2. \A w \in left : w.arkTxId # v.txid
        BY <2>3, <4>1, Told
      <4> QED
        BY <4>2 DEF SpentInPayment
    <3>4. old.left = left /\ old.txs = told /\ \A L : [old EXCEPT !.left = L] = [left |-> L, txs |-> told]
      OBVIOUS
    <3> HIDE DEF old, e, bb
    <3>5. Explain(old, v, bb) =
            IF v.value <= Value(e) \/ v.value <= Value({}) THEN [left |-> left \ e, txs |-> told]
            ELSE [left |-> left \ e,
                  txs |-> Append(told, [txid |-> v.txid, amount |-> v.value - Value(e) - Value({})])]
      <4>1. \A X : left \ (X \cup {}) = left \ X
        OBVIOUS
      <4> QED
        BY <3>1, <3>2, <3>3, <3>4, <4>1 DEF Explain
    <3>6. ~(v.value <= Value({})) /\ v.value - Value(e) - Value({}) = v.value - Value(e)
      BY <1>1, <1>2, <1>4
    <3>7. Explain(old, v, bb) = IF v.value <= Value(e) THEN [left |-> left \ e, txs |-> told]
                                ELSE [left |-> left \ e, txs |-> Append(told, tx)]
      BY <3>5, <3>6
    <3> HIDE DEF tx, Good
    <3> QED
      BY <2>2, <2>3, <3>7
  <2>4. ASSUME ~OfBoarding(v), ~IsLeaf(v)
        PROVE  Good
    <3>2. SpentInSettlement(left, v) = {}
      BY <1>1, <2>4 DEF SpentInSettlement
    <3>3. SpentInPayment(left, v) = e
      <4>1. \A w \in left : w \in Spent /\ w \in vtxos
        BY DEF Spent
      <4>2. \A w \in left : w.arkTxId = v.txid <=> Spender(w) = Origin(v)
        BY <2>4, <4>1, Told
      <4> QED
        BY <1>5, <4>1, <4>2 DEF SpentInPayment, TakenBy
    <3>4. old.left = left /\ old.txs = told /\ \A L : [old EXCEPT !.left = L] = [left |-> L, txs |-> told]
      OBVIOUS
    <3> HIDE DEF old, e, bb
    <3>6. ~(v.value <= Value({})) /\ v.value - Value({}) - Value(e) = v.value - Value(e)
      BY <1>1, <1>2, <1>4
    <3>5. Explain(old, v, bb) =
            IF v.value <= Value(e) THEN [left |-> left \ e, txs |-> told]
            ELSE [left |-> left \ e,
                  txs |-> Append(told, [txid |-> v.txid, amount |-> v.value - Value({}) - Value(e)])]
      <4>1. \A X : left \ ({} \cup X) = left \ X
        OBVIOUS
      <4>2. SpentInPayment(left \ {}, v) = e
        <5>1. left \ {} = left
          OBVIOUS
        <5> QED
          BY <3>3, <5>1
      <4> QED
        BY <1>1, <2>4, <3>2, <3>4, <3>6, <4>1, <4>2 DEF Explain
    <3>7. Explain(old, v, bb) = IF v.value <= Value(e) THEN [left |-> left \ e, txs |-> told]
                                ELSE [left |-> left \ e, txs |-> Append(told, tx)]
      BY <3>5, <3>6
    <3> HIDE DEF tx, Good
    <3> QED
      BY <2>2, <2>4, <3>7
  <2>5. Good
    <3> HIDE DEF Good
    <3> QED
      BY <1>1, <2>1, <2>3, <2>4
  <2> HIDE DEF r, e
  <2> QED
    BY <2>5
<1> HIDE DEF e, r
<1>6. Takes(v, e, r, Spent, bb)
  BY <1>5 DEF Takes
<1> QED
  BY <1>3, <1>6 DEF e, r

\* What each transaction made of the wallet's coins, and took.
MadeValue == [t \in TxIds |-> Value(Made(t))]
TakenValue == [t \in TxIds |-> Value(TakenBy(t))]
Cost == [t \in TxIds |-> IF TakenValue[t] <= MadeValue[t] THEN 0 ELSE TakenValue[t] - MadeValue[t]]
Gain == [t \in TxIds |-> IF t \in BoardingBatches(boarding) \/ MadeValue[t] <= TakenValue[t] THEN 0
                         ELSE MadeValue[t] - TakenValue[t]]

\* They are values of coins.
LEMMA ValuesOfTxs ==
    ASSUME TypeOK, CoinsKnown
    PROVE  /\ IsFiniteSet(TxIds) /\ IsCoins(Spent)
           /\ \A t \in TxIds : MadeValue[t] \in Nat /\ TakenValue[t] \in Nat
           /\ \A t \in TxIds : Cost[t] \in Nat /\ Gain[t] \in Nat
<1>1. IsFiniteSet(TxIds)
  BY OffchainAssumption, FS_Interval DEF TxIds
<1>2. Spent \in SUBSET vtxos /\ \A t : Made(t) \in SUBSET vtxos /\ TakenBy(t) \in SUBSET vtxos
  BY DEF Spent, Made, TakenBy
<1>3. IsCoins(Spent) /\ \A t : Value(Made(t)) \in Nat /\ Value(TakenBy(t)) \in Nat
  BY <1>2, WalletCoins, CoinsSubset, ValueNat
<1>4. \A t \in TxIds : MadeValue[t] \in Nat /\ TakenValue[t] \in Nat
  BY <1>3 DEF MadeValue, TakenValue
<1>5. \A t \in TxIds : Cost[t] \in Nat /\ Gain[t] \in Nat
  BY <1>4 DEF Cost, Gain
<1> QED
  BY <1>1, <1>3, <1>4, <1>5

\* The transactions of the history took what they made too little of.
LEMMA SentTotal ==
    ASSUME TypeOK, CoinsKnown, SpentOnce, OriginsTold
    PROVE  MapThenSumSet(LAMBDA tx : tx.amount, Sent(vtxos, Spent)) = SumFunctionOnSet(Cost, TxIds)
<1> DEFINE C(txid) == Value({v \in Spent : txid = v.settledBy \/ txid = v.arkTxId})
                        - Value(ResultedFrom(vtxos, txid))
           txids == {v.settledBy : v \in Spent} \cup {v.arkTxId : v \in Spent}
           T == {t \in txids \ {0} : C(t) > 0}
           tx(t) == [txid |-> t, amount |-> C(t)]
           S == Sent(vtxos, Spent)
<1>1. S = {tx(t) : t \in T}
  BY DEF Sent
<1>2. ASSUME NEW t \in txids \ {0}
      PROVE  t \in TxIds /\ C(t) = TakenValue[t] - MadeValue[t]
  <2>1. PICK w \in vtxos : w \in Spent /\ (t = w.settledBy \/ t = w.arkTxId)
    BY DEF Spent
  <2>2. t \in TxIds
    BY <2>1, OffchainAssumption DEF TypeOK, VtxoType, SpentBy, TxIds
  <2>3. {v \in Spent : t = v.settledBy \/ t = v.arkTxId} = TakenBy(t)
    <3>1. \A v \in Spent : v \in vtxos /\ v.settledBy \in Nat /\ v.arkTxId \in Nat
                           /\ (v.settledBy = 0 \/ v.arkTxId = 0)
      BY OffchainAssumption DEF Spent, TypeOK, VtxoType, SpentBy, SpentOnce
    <3>2. \A v \in Spent : t = v.settledBy \/ t = v.arkTxId <=> Spender(v) = t
      BY <2>2, <3>1 DEF Spender
    <3> QED
      BY <3>2 DEF TakenBy
  <2>4. ResultedFrom(vtxos, t) = Made(t)
    <3>1. ASSUME NEW v \in vtxos
          PROVE  v.txid = t \/ (v.state # "preconfirmed" /\ t \in v.commitments) <=> Origin(v) = t
      <4>1. CASE IsLeaf(v)
        BY <2>1, <4>1, Told DEF IsLeaf
      <4>2. CASE ~IsLeaf(v)
        BY <4>2, Told DEF IsLeaf
      <4> QED
        BY <4>1, <4>2
    <3> QED
      BY <3>1 DEF ResultedFrom, Made
  <2> QED
    BY <2>2, <2>3, <2>4 DEF TakenValue, MadeValue
<1>3. IsFiniteSet(S) /\ T \subseteq TxIds
  <2>1. T \in SUBSET TxIds
    BY <1>2
  <2>2. IsFiniteSet(T)
    BY <2>1, ValuesOfTxs, FS_Subset, ZenonT(60)
  <2> DEFINE f == [t \in T |-> tx(t)]
  <2>3. S = {f[t] : t \in T}
    BY <1>1
  <2> HIDE DEF T, f, S
  <2> QED
    BY <2>1, <2>2, <2>3, ImageFinite
<1> HIDE DEF C, txids, S
<1> DEFINE key == [x \in S |-> x.txid]
           f == [x \in S |-> x.amount]
<1>4. \A x \in S : \E t \in T : x = tx(t)
  BY <1>1
<1>5. \A t \in T : t \in TxIds /\ C(t) = Cost[t] /\ Cost[t] \in Nat
  <2> TAKE t \in T
  <2>1. t \in TxIds /\ C(t) = TakenValue[t] - MadeValue[t] /\ C(t) > 0
    BY <1>2
  <2>2. TakenValue[t] \in Nat /\ MadeValue[t] \in Nat /\ Cost[t] \in Nat
    BY <2>1, ValuesOfTxs
  <2>3. ~(TakenValue[t] <= MadeValue[t])
    BY <2>1, <2>2
  <2> QED
    BY <2>1, <2>2, <2>3 DEF Cost
<1>6. \A x \in S : key[x] \in TxIds /\ f[x] \in Int /\ Cost[key[x]] = f[x]
  BY <1>4, <1>5
<1>7. \A x, y \in S : key[x] = key[y] => x = y
  BY <1>4
<1>8. ASSUME NEW t \in TxIds, \A x \in S : key[x] # t
      PROVE  Cost[t] = 0
  <2>1. t \notin T
    <3>1. \A k \in T : tx(k) \in S /\ key[tx(k)] = k
      BY <1>1
    <3> QED
      BY <1>8, <3>1
  <2>2. TakenValue[t] \in Nat /\ MadeValue[t] \in Nat
    BY ValuesOfTxs
  <2>3. CASE t \in txids
    <3>1. t # 0
      BY OffchainAssumption DEF TxIds
    <3>2. C(t) = TakenValue[t] - MadeValue[t] /\ ~(C(t) > 0)
      BY <1>2, <2>1, <2>3, <3>1
    <3>3. TakenValue[t] <= MadeValue[t]
      BY <2>2, <3>2
    <3> QED
      BY <3>3 DEF Cost
  <2>4. CASE t \notin txids
    <3>1. TakenBy(t) = {}
      <4>1. \A w \in Spent : w.settledBy # t /\ w.arkTxId # t
        BY <2>4 DEF txids
      <4>2. \A w \in Spent : Spender(w) = w.settledBy \/ Spender(w) = w.arkTxId
        BY OffchainAssumption DEF Spent, TypeOK, VtxoType, SpentBy, SpentOnce, Spender
      <4> QED
        BY <4>1, <4>2 DEF TakenBy
    <3>2. TakenValue[t] = 0
      BY <3>1, ValueEmpty DEF TakenValue
    <3> QED
      BY <2>2, <3>2 DEF Cost
  <2> QED
    BY <2>3, <2>4
<1>9. IsFiniteSet(TxIds)
  BY ValuesOfTxs
<1> HIDE DEF key, f, T
<1>10. SumFunctionOnSet(f, S) = SumFunctionOnSet(Cost, TxIds)
  BY <1>3, <1>6, <1>7, <1>8, <1>9, SumKeys
<1>11. MapThenSumSet(LAMBDA x : x.amount, S) = SumFunctionOnSet(f, S)
  BY <1>3, SumOfAmounts DEF f
<1> QED
  BY <1>10, <1>11 DEF S

\* A sequence of the members of a set has each of them once.
LEMMA SeqOfSet ==
    ASSUME NEW S, IsFiniteSet(S), NEW s \in SetToSeqs(S)
    PROVE  /\ s \in Seq(S) /\ ToSet(s) = S
           /\ \A i, j \in 1 .. Len(s) : s[i] = s[j] => i = j
           /\ \A x \in S : \E i \in 1 .. Len(s) : s[i] = x
<1> DEFINE n == Cardinality(S)
           D == 1 .. n
<1>1. n \in Nat
  BY FS_CardinalityType
<1>2. s \in [D -> S] /\ \A i, j \in D : s[i] = s[j] => i = j
  BY DEF SetToSeqs
<1>3. IsFiniteSet(D) /\ Cardinality(D) = n
  BY <1>1, FS_Interval
<1>4. s \in Injection(D, S)
  BY <1>2 DEF Injection, IsInjective
<1>5. s \in Surjection(D, S)
  <2> HIDE DEF D, n
  <2>1. Cardinality(D) = Cardinality(S)
    BY <1>3 DEF n
  <2> QED
    BY <1>4, <2>1, FS_Injection
<1>6. \A x \in S : \E i \in D : s[i] = x
  BY <1>5 DEF Surjection
<1>7. s \in Seq(S) /\ Len(s) = n /\ DOMAIN s = D
  BY <1>1, <1>2
<1>8. ToSet(s) = S
  BY <1>2, <1>6, <1>7 DEF ToSet
<1> QED
  BY <1>2, <1>6, <1>7, <1>8

\* A sequence that has each of the coins once.
Lists(vs, V) ==
    /\ DOMAIN vs = 1 .. Len(vs) /\ Len(vs) \in Nat
    /\ \A i \in 1 .. Len(vs) : vs[i] \in V
    /\ \A v \in V : \E i \in 1 .. Len(vs) : vs[i] = v
    /\ \A i, j \in 1 .. Len(vs) : vs[i] = vs[j] => i = j
    /\ ToSet(vs) = V

\* So are the two listings, one after the other.
LEMMA ConcatLists ==
    ASSUME NEW A, IsFiniteSet(A), NEW B, IsFiniteSet(B), A \cap B = {},
           NEW s \in SetToSeqs(A), NEW t \in SetToSeqs(B)
    PROVE  Lists(s \o t, A \cup B) /\ ToSet(t) = B
<1> DEFINE V == A \cup B
           m == Len(s)
           k == Len(t)
           vs == s \o t
<1>1. /\ s \in Seq(A) /\ ToSet(s) = A
      /\ \A i, j \in 1 .. m : s[i] = s[j] => i = j
      /\ \A x \in A : \E i \in 1 .. m : s[i] = x
  BY SeqOfSet
<1>2. /\ t \in Seq(B) /\ ToSet(t) = B
      /\ \A i, j \in 1 .. k : t[i] = t[j] => i = j
      /\ \A x \in B : \E i \in 1 .. k : t[i] = x
  BY SeqOfSet
<1>3. s \in Seq(V) /\ t \in Seq(V) /\ m \in Nat /\ k \in Nat
      /\ (\A i \in 1 .. m : s[i] \in A) /\ (\A i \in 1 .. k : t[i] \in B)
  BY <1>1, <1>2, SeqMonotonic, LenProperties, ElementOfSeq
<1>4. /\ vs \in Seq(V) /\ Len(vs) = m + k
      /\ \A i \in 1 .. m + k : vs[i] = IF i <= m THEN s[i] ELSE t[i - m]
  BY <1>3, ConcatProperties
<1>5. DOMAIN vs = 1 .. m + k
  BY <1>4, LenProperties
<1> HIDE DEF m, k, vs
<1>6. \A i \in 1 .. m + k : \/ i \in 1 .. m /\ vs[i] = s[i] /\ s[i] \in A
                            \/ i - m \in 1 .. k /\ vs[i] = t[i - m] /\ t[i - m] \in B
  <2> TAKE i \in 1 .. m + k
  <2>1. CASE i <= m
    BY <1>3, <1>4, <2>1
  <2>2. CASE ~(i <= m)
    <3>1. i - m \in 1 .. k
      BY <1>3, <2>2
    <3> QED
      BY <1>3, <1>4, <2>2, <3>1
  <2> QED
    BY <2>1, <2>2
<1>7. \A v \in V : \E i \in 1 .. m + k : vs[i] = v
  <2> TAKE v \in V
  <2>1. CASE v \in A
    <3>1. PICK i \in 1 .. m : s[i] = v
      BY <1>1, <2>1
    <3>2. i \in 1 .. m + k /\ i <= m
      BY <1>3
    <3> QED
      BY <1>4, <3>1, <3>2
  <2>2. CASE v \in B
    <3>1. PICK i \in 1 .. k : t[i] = v
      BY <1>2, <2>2
    <3> DEFINE j == i + m
    <3>2. j \in 1 .. m + k /\ ~(j <= m) /\ j - m = i
      BY <1>3
    <3> HIDE DEF j
    <3>3. vs[j] = t[j - m]
      BY <1>4, <3>2
    <3> QED
      BY <3>1, <3>2, <3>3
  <2> QED
    BY <2>1, <2>2
<1>8. ASSUME NEW i \in 1 .. m + k, NEW j \in 1 .. m + k, vs[i] = vs[j]
      PROVE  i = j
  <2>1. CASE vs[i] \in A
    <3>1. i \in 1 .. m /\ j \in 1 .. m /\ s[i] = s[j]
      BY <1>6, <1>8, <2>1
    <3> QED
      BY <1>1, <3>1 DEF m
  <2>2. CASE vs[i] \notin A
    <3>1. i - m \in 1 .. k /\ j - m \in 1 .. k /\ t[i - m] = t[j - m]
      BY <1>6, <1>8, <2>2
    <3>2. i - m = j - m
      BY <1>2, <3>1 DEF k
    <3> QED
      BY <1>3, <3>2
  <2> QED
    BY <2>1, <2>2
<1>9. \A i \in 1 .. m + k : vs[i] \in V
  BY <1>6
<1>10. ToSet(vs) = V
  BY <1>5, <1>7, <1>9 DEF ToSet
<1>11. Lists(vs, V)
  BY <1>3, <1>4, <1>5, <1>7, <1>8, <1>9, <1>10 DEF Lists
<1> QED
  BY <1>2, <1>11 DEF vs

\* What the transaction t made, each coin worth what it was short of, is what t
\* made more than it took: t spent none of the wallet's coins, or made one alone.
LEMMA GainOf ==
    ASSUME TypeOK, CoinsKnown, SpentOnce, OriginsTold, NEW t \in TxIds
    PROVE  Value({[coin |-> v, value |-> Receipt(v)] : v \in Made(t)}) = Gain[t]
<1> DEFINE M == Made(t)
           f == [v \in M |-> [coin |-> v, value |-> Receipt(v)]]
           R == {f[v] : v \in M}
           bb == BoardingBatches(boarding)
<1>1. IsCoins(M) /\ M \subseteq vtxos /\ (\A v \in M : Origin(v) = t) /\ M = Made(t)
  <2>1. M \in SUBSET vtxos /\ IsCoins(vtxos)
    BY WalletCoins DEF Made
  <2> HIDE DEF M
  <2>2. IsCoins(M)
    BY <2>1, CoinsSubset
  <2> QED
    BY <2>1, <2>2 DEF M, Made
<1>2. MadeValue[t] = Value(M) /\ TakenValue[t] = Value(TakenBy(t))
      /\ MadeValue[t] \in Nat /\ TakenValue[t] \in Nat
  BY ValuesOfTxs DEF MadeValue, TakenValue
<1>3. \A v \in M : Receipt(v) \in Nat /\ v.value \in Nat \ {0} /\ f[v].value = Receipt(v)
  BY <1>1, Told, VtxoTakes
<1>4. t \in bb \/ TakenBy(t) # {} => t \in Spenders
  BY DEF BoardingBatches, TakenBy, Spent, Spenders
<1>5. \A v \in M : OfBoarding(v) <=> t \in bb
  <2> TAKE v \in M
  <2>1. CASE IsLeaf(v)
    BY <1>1, <2>1 DEF OfBoarding
  <2>2. CASE ~IsLeaf(v)
    <3>1. t \in Payments
      BY <1>1, <2>2, Told DEF Payments
    <3>2. bb \subseteq Batches
      BY DEF BoardingBatches, Batches
    <3> QED
      BY <2>2, <3>1, <3>2 DEF OfBoarding, OriginsTold
  <2> QED
    BY <2>1, <2>2
<1>6. \A v \in M : Receipt(v) = IF t \in bb \/ v.value <= TakenValue[t] THEN 0
                                ELSE v.value - TakenValue[t]
  BY <1>1, <1>2, <1>5 DEF Receipt
<1>7. {[coin |-> v, value |-> Receipt(v)] : v \in Made(t)} = R
  OBVIOUS
<1> HIDE DEF M, f, bb
<1>8. CASE M = {}
  <2>1. R = {}
    BY <1>8
  <2> QED
    BY <1>2, <1>8, <2>1, <1>7, ValueEmpty DEF Gain
<1>9. CASE M # {} /\ t \in Spenders
  <2>1. PICK v \in M : TRUE
    BY <1>9
  <2>2. M = {v} /\ R = {f[v]}
    BY <1>1, <1>9, <2>1 DEF OriginsTold
  <2>3. Value(R) = Receipt(v) /\ Value(M) = v.value
    BY <1>3, <2>2, ValueOne
  <2> HIDE DEF R
  <2> QED
    BY <1>2, <1>6, <1>7, <2>1, <2>3 DEF Gain, bb
<1>10. CASE t \notin Spenders
  <2>1. TakenValue[t] = 0 /\ t \notin bb
    BY <1>2, <1>4, <1>10, ValueEmpty
  <2>2. \A v \in M : f[v].value = v.value
    BY <1>3, <1>6, <2>1
  <2>3. \A v, w \in M : f[v] = f[w] => v = w
    BY DEF f
  <2>4. Value(R) = Value(M)
    BY <1>1, <2>2, <2>3, ValueMarked
  <2>5. Gain[t] = Value(M)
    BY <1>2, <2>1 DEF Gain, bb
  <2> HIDE DEF R
  <2> QED
    BY <1>7, <2>4, <2>5
<1> QED
  BY <1>8, <1>9, <1>10

\* What the history says was received is what transactions made more than they took.
LEMMA ReceiptsTotal ==
    ASSUME TypeOK, CoinsKnown, SpentOnce, OriginsTold, NEW vs, Lists(vs, vtxos)
    PROVE  Total(Received(vs, Spent, BoardingBatches(boarding))) = SumFunctionOnSet(Gain, TxIds)
<1> DEFINE n == Len(vs)
           bb == BoardingBatches(boarding)
           e == [i \in 1 .. n |-> TakenBy(Origin(vs[i]))]
           r == [i \in 1 .. n |-> Receipt(vs[i])]
           f == [v \in vtxos |-> [coin |-> v, value |-> Receipt(v)]]
           R == {f[v] : v \in vtxos}
<1>1. /\ n \in Nat /\ DOMAIN vs = 1 .. n /\ \A i \in 1 .. n : vs[i] \in vtxos
      /\ \A i, j \in 1 .. n : vs[i] = vs[j] => i = j
      /\ \A v \in vtxos : \E i \in 1 .. n : vs[i] = v
  BY DEF Lists
<1>2. \A v \in vtxos : Receipt(v) \in Nat /\ Origin(v) \in TxIds
  BY Told, VtxoTakes
<1>3. e \in [1 .. n -> SUBSET Spent] /\ \A i, j \in 1 .. n : i # j => e[i] \cap e[j] = {}
  <2>1. ASSUME NEW v \in vtxos, NEW w \in vtxos, v # w
        PROVE  TakenBy(Origin(v)) \cap TakenBy(Origin(w)) = {}
    <3>1. \A x : TakenBy(x) # {} => x \in Spenders
      BY DEF TakenBy, Spent, Spenders
    <3>2. Origin(v) = Origin(w) => Origin(v) \notin Spenders
      BY <2>1 DEF OriginsTold
    <3>3. \A x, y : x # y => TakenBy(x) \cap TakenBy(y) = {}
      BY DEF TakenBy
    <3> QED
      BY <3>1, <3>2, <3>3
  <2>2. \A x : TakenBy(x) \in SUBSET Spent
    BY DEF TakenBy
  <2> QED
    BY <1>1, <2>1, <2>2
<1>4. r \in [1 .. n -> Int] /\ \A i \in 1 .. n : Takes(vs[i], e[i], r[i], Spent, bb)
  <2>1. \A i \in 1 .. n : Receipt(vs[i]) \in Nat
                          /\ Takes(vs[i], TakenBy(Origin(vs[i])), Receipt(vs[i]), Spent, bb)
    BY <1>1, VtxoTakes
  <2> HIDE DEF bb
  <2> QED
    BY <2>1
<1>5. Total(Received(vs, Spent, bb)) = SumFunctionOnSet(r, 1 .. n)
  <2> HIDE DEF n, bb, e, r, f, R
  <2> QED
    BY <1>1, <1>3, <1>4, ReceivedTotal, SMTT(30)
<1>6. IsCoins(R) /\ IsFiniteSet(1 .. n) /\ IsFiniteSet(R)
  <2>1. IsFiniteSet(vtxos) /\ IsFiniteSet(1 .. n)
    BY <1>1, FS_Interval DEF CoinsKnown
  <2>2. IsFiniteSet(R)
    BY <2>1, ImageFinite
  <2>3. \A c \in R : c.value \in Nat
    BY <1>2
  <2> HIDE DEF R
  <2> QED
    BY <2>1, <2>2, <2>3 DEF IsCoins
<1>7. SumFunctionOnSet(r, 1 .. n) = Value(R)
  <2> DEFINE D == 1 .. n
             key == [i \in D |-> f[vs[i]]]
             g == [c \in R |-> c.value]
  <2>1. \A i \in D : key[i] \in R /\ r[i] \in Int /\ g[key[i]] = r[i]
    BY <1>1, <1>2
  <2>2. \A i, j \in D : key[i] = key[j] => i = j
    <3>1. \A i \in D : key[i].coin = vs[i]
      BY <1>1
    <3> HIDE DEF key
    <3> QED
      BY <1>1, <3>1
  <2>3. \A c \in R : (\A i \in D : key[i] # c) => g[c] = 0
    <3>1. \A c \in R : \E i \in D : key[i] = c
      BY <1>1
    <3> QED
      BY <3>1
  <2>6. IsFiniteSet(D) /\ IsFiniteSet(R)
    BY <1>6
  <2>7. \A i \in D : key[i] \in R
    BY <2>1
  <2>8. \A i \in D : r[i] \in Int
    BY <2>1
  <2>9. \A i \in D : g[key[i]] = r[i]
    BY <2>1
  <2> HIDE DEF D, key, g, r, R, f
  <2>4. SumFunctionOnSet(r, D) = SumFunctionOnSet(g, R)
    BY <2>2, <2>3, <2>6, <2>7, <2>8, <2>9, SumKeys
  <2>5. Value(R) = SumFunctionOnSet(g, R)
    BY <1>6, ValueIn DEF g
  <2> QED
    BY <2>4, <2>5 DEF D
<1>8. Value(R) = SumFunctionOnSet(Gain, TxIds)
  <2> DEFINE K == TxIds
             key == [c \in R |-> Origin(c.coin)]
             part == [t \in K |-> {[coin |-> v, value |-> Receipt(v)] : v \in Made(t)}]
             g == Gain
  <2>1. \A c \in R : key[c] \in K
    BY <1>2
  <2>2. \A t \in K : \A c : c \in part[t] <=> c \in R /\ key[c] = t
    BY DEF Made
  <2>3. \A t \in K : g[t] = Value(part[t])
    BY GainOf
  <2>4. IsFiniteSet(K)
    BY ValuesOfTxs
  <2> HIDE DEF K, key, part, g, R
  <2>5. Value(R) = SumFunctionOnSet(g, K)
    BY <1>6, <2>1, <2>2, <2>3, <2>4, ValueGroups
  <2> QED
    BY <2>5 DEF g, K
<1> QED
  BY <1>5, <1>7, <1>8

\* The boarding utxos each batch took.
BoardedValue == [t \in TxIds |-> Value({u \in boarding : u.settledBy = t})]

\* The values of the wallet's coins, by the transactions that made and took them.
LEMMA ValuesByTx ==
    ASSUME TypeOK, CoinsKnown, SpentOnce, OriginsTold
    PROVE  /\ Value(vtxos) = SumFunctionOnSet(MadeValue, TxIds)
           /\ Value(Spent) = SumFunctionOnSet(TakenValue, TxIds)
           /\ Value(boarding \ Unspent(boarding)) = SumFunctionOnSet(BoardedValue, TxIds)
           /\ \A t \in TxIds : BoardedValue[t] \in Nat
<1> DEFINE K == TxIds
           taken == boarding \ Unspent(boarding)
<1>1. IsFiniteSet(K) /\ IsCoins(vtxos) /\ IsCoins(Spent) /\ IsCoins(boarding)
  BY ValuesOfTxs, WalletCoins
<1>2. Value(vtxos) = SumFunctionOnSet(MadeValue, K)
  <2> DEFINE key == [v \in vtxos |-> Origin(v)]
             part == [t \in K |-> Made(t)]
             g == MadeValue
  <2>1. \A v \in vtxos : key[v] \in K
    BY Told
  <2>2. \A t \in K : \A v : v \in part[t] <=> v \in vtxos /\ key[v] = t
    BY DEF Made
  <2>3. \A t \in K : g[t] = Value(part[t])
    BY DEF MadeValue
  <2> HIDE DEF K, key, part, g
  <2>4. Value(vtxos) = SumFunctionOnSet(g, K)
    BY <1>1, <2>1, <2>2, <2>3, ValueGroups
  <2> QED
    BY <2>4 DEF g
<1>3. Value(Spent) = SumFunctionOnSet(TakenValue, K)
  <2> DEFINE key == [v \in Spent |-> Spender(v)]
             part == [t \in K |-> TakenBy(t)]
             g == TakenValue
  <2>1. \A v \in Spent : key[v] \in K
    <3>1. \A v \in Spent : v \in vtxos /\ ~IsSpendable(v)
      BY DEF Spent
    <3>2. \A v \in Spent : Spender(v) \in 0 .. MaxTx /\ Spender(v) # 0
      BY <3>1, Told
    <3> QED
      BY <3>2, OffchainAssumption DEF TxIds
  <2>2. \A t \in K : \A v : v \in part[t] <=> v \in Spent /\ key[v] = t
    BY DEF TakenBy
  <2>3. \A t \in K : g[t] = Value(part[t])
    BY DEF TakenValue
  <2> HIDE DEF K, key, part, g
  <2>4. Value(Spent) = SumFunctionOnSet(g, K)
    BY <1>1, <2>1, <2>2, <2>3, ValueGroups
  <2> QED
    BY <2>4 DEF g
<1>4. taken \in SUBSET boarding /\ IsCoins(taken)
  <2>1. taken \in SUBSET boarding
    OBVIOUS
  <2> HIDE DEF taken
  <2> QED
    BY <1>1, <2>1, CoinsSubset
<1>5. Value(taken) = SumFunctionOnSet(BoardedValue, K)
  <2> DEFINE key == [u \in taken |-> u.settledBy]
             part == [t \in K |-> {u \in boarding : u.settledBy = t}]
             g == BoardedValue
  <2>1. \A u \in taken : key[u] \in K
    BY OffchainAssumption DEF TypeOK, UtxoType, SpentBy, TxIds, Unspent
  <2>2. \A t \in K : \A u : u \in part[t] <=> u \in taken /\ key[u] = t
    BY OffchainAssumption DEF Unspent, TxIds
  <2>3. \A t \in K : g[t] = Value(part[t])
    BY DEF BoardedValue
  <2> HIDE DEF K, key, part, g, taken
  <2>4. Value(taken) = SumFunctionOnSet(g, K)
    BY <1>1, <1>4, <2>1, <2>2, <2>3, ValueGroups
  <2> QED
    BY <2>4 DEF g
<1>6. \A t \in TxIds : BoardedValue[t] \in Nat
  <2>1. \A t : {u \in boarding : u.settledBy = t} \in SUBSET boarding
    OBVIOUS
  <2>2. \A t : Value({u \in boarding : u.settledBy = t}) \in Nat
    BY <1>1, <2>1, CoinsSubset, ValueNat
  <2> QED
    BY <2>2 DEF BoardedValue
<1> QED
  BY <1>2, <1>3, <1>5, <1>6

\* Transaction by transaction, what the history adds and takes away is what
\* the wallet's coins did.
LEMMA GainsAndCosts ==
    ASSUME TypeOK, CoinsKnown, SpentOnce, OriginsTold, BoardingComesBack, NEW t \in TxIds
    PROVE  Gain[t] + (TakenValue[t] + BoardedValue[t]) = Cost[t] + MadeValue[t]
<1>1. MadeValue[t] \in Nat /\ TakenValue[t] \in Nat /\ BoardedValue[t] \in Nat
  BY ValuesOfTxs, ValuesByTx
<1>2. CASE t \in BoardingBatches(boarding)
  <2>1. {v \in vtxos : v.settledBy = t} = TakenBy(t)
    <3>1. t \in Batches /\ t # 0
      BY <1>2 DEF BoardingBatches, Batches
    <3>2. \A v \in vtxos : v.arkTxId # t
      BY <3>1 DEF OriginsTold, Payments
    <3>3. \A v \in vtxos : v.settledBy = t <=> Spender(v) = t /\ v \in Spent
      BY <3>1, <3>2, OffchainAssumption
         DEF Spent, IsSpendable, Spender, SpentOnce, TypeOK, VtxoType, SpentBy
    <3> QED
      BY <3>3 DEF TakenBy, Spent
  <2>2. MadeValue[t] = TakenValue[t] + BoardedValue[t]
    BY <1>2, <2>1 DEF BoardingComesBack, MadeValue, TakenValue, BoardedValue, Made
  <2>3. TakenValue[t] <= MadeValue[t]
    BY <1>1, <2>2
  <2>4. Gain[t] = 0 /\ Cost[t] = 0
    BY <1>2, <2>3 DEF Gain, Cost
  <2> QED
    BY <1>1, <2>2, <2>4
<1>3. CASE t \notin BoardingBatches(boarding)
  <2>1. {u \in boarding : u.settledBy = t} = {}
    BY <1>3, OffchainAssumption DEF BoardingBatches, TxIds
  <2>2. BoardedValue[t] = 0
    BY <2>1, ValueEmpty DEF BoardedValue
  <2> QED
    BY <1>1, <1>3, <2>2 DEF Gain, Cost
<1> QED
  BY <1>2, <1>3

\* The sums of both sides.
LEMMA GainsBalance ==
    ASSUME TypeOK, CoinsKnown, SpentOnce, OriginsTold, BoardingComesBack
    PROVE  /\ SumFunctionOnSet(Gain, TxIds) + (Value(Spent) + Value(boarding \ Unspent(boarding)))
                = SumFunctionOnSet(Cost, TxIds) + Value(vtxos)
           /\ SumFunctionOnSet(Gain, TxIds) \in Int /\ SumFunctionOnSet(Cost, TxIds) \in Int
<1> DEFINE K == TxIds
           a == [t \in K |-> TakenValue[t] + BoardedValue[t]]
           l == [t \in K |-> Gain[t] + a[t]]
           f == Gain
           c == Cost
           m == MadeValue
           s == TakenValue
           u == BoardedValue
           Sum(g) == SumFunctionOnSet(g, K)
<1>1. IsFiniteSet(K)
  BY ValuesOfTxs
<1>2. \A t \in K : /\ f[t] \in Int /\ c[t] \in Int /\ m[t] \in Int /\ s[t] \in Int /\ u[t] \in Int
                   /\ a[t] = s[t] + u[t] /\ a[t] \in Int /\ l[t] = f[t] + a[t] /\ l[t] = c[t] + m[t]
  <2> TAKE t \in K
  <2>1. f[t] \in Int /\ c[t] \in Int /\ m[t] \in Int /\ s[t] \in Int /\ u[t] \in Int
    BY ValuesOfTxs, ValuesByTx
  <2>2. f[t] + (s[t] + u[t]) = c[t] + m[t]
    BY GainsAndCosts
  <2>3. a[t] = s[t] + u[t] /\ l[t] = f[t] + a[t]
    OBVIOUS
  <2> HIDE DEF f, c, m, s, u, a, l, K
  <2> QED
    BY <2>1, <2>2, <2>3
<1> HIDE DEF K, a, l, f, c, m, s, u
<1>3. Sum(a) = Sum(s) + Sum(u)
  BY <1>1, <1>2, SumPlus
<1>4. Sum(l) = Sum(f) + Sum(a)
  BY <1>1, <1>2, SumPlus
<1>5. Sum(l) = Sum(c) + Sum(m)
  BY <1>1, <1>2, SumPlus
<1>6. Sum(f) \in Int /\ Sum(c) \in Int
  BY <1>1, <1>2, SumType
<1>7. /\ Value(vtxos) = Sum(m) /\ Value(Spent) = Sum(s)
      /\ Value(boarding \ Unspent(boarding)) = Sum(u)
  BY ValuesByTx DEF K, m, s, u
<1>8. Sum(f) + (Sum(s) + Sum(u)) = Sum(c) + Sum(m)
  BY <1>3, <1>4, <1>5
<1>9. Sum(f) + (Value(Spent) + Value(boarding \ Unspent(boarding))) = Sum(c) + Value(vtxos)
  BY <1>7, <1>8
<1> QED
  BY <1>6, <1>9 DEF K, f, c

\* In a state of the invariant the history balances.
LEMMA HistoryOfCoins ==
    ASSUME TypeOK, CoinsKnown, HistoryInv
    PROVE  HistoryBalances
<1> SUFFICES ASSUME ~unusual
             PROVE  LET live == {v \in vtxos : IsSpendable(v)}
                    IN  \A s \in SetToSeqs(live), t \in SetToSeqs(vtxos \ live) :
                           HistoryTotal(s, t, boarding) = Balance
  BY DEF HistoryBalances
<1>1. SpentOnce /\ OriginsTold /\ BoardingComesBack
  BY DEF HistoryInv
<1> DEFINE live == {v \in vtxos : IsSpendable(v)}
           bb == BoardingBatches(boarding)
<1>2. IsCoins(vtxos) /\ IsCoins(boarding)
  BY WalletCoins
<1>3. vtxos \ live = Spent /\ live \cup Spent = vtxos /\ live \cap Spent = {} /\ live \in SUBSET vtxos
  BY DEF Spent
<1>4. IsFiniteSet(live) /\ IsFiniteSet(Spent)
  BY <1>2, <1>3, FS_Subset DEF IsCoins
<1>5. ASSUME NEW s \in SetToSeqs(live), NEW t \in SetToSeqs(Spent)
      PROVE  HistoryTotal(s, t, boarding) = Balance
  <2> DEFINE all == s \o t
             gains == SumFunctionOnSet(Gain, TxIds)
             costs == SumFunctionOnSet(Cost, TxIds)
  <2>1. Lists(all, vtxos) /\ ToSet(t) = Spent /\ ToSet(all) = vtxos
    <3>1. Lists(all, live \cup Spent) /\ ToSet(t) = Spent
      <4> HIDE DEF live
      <4> QED
        BY <1>3, <1>4, ConcatLists
    <3> QED
      BY <1>3, <3>1 DEF Lists
  <2> HIDE DEF all, live
  <2>2. Total(Received(all, Spent, bb)) = gains
    BY <1>1, <2>1, ReceiptsTotal
  <2>3. MapThenSumSet(LAMBDA tx : tx.amount, Sent(vtxos, Spent)) = costs
    BY <1>1, SentTotal
  <2>4. HistoryTotal(s, t, boarding) = Value(boarding) + gains - costs
    BY <2>1, <2>2, <2>3 DEF HistoryTotal, Total, all
  <2>5. /\ gains + (Value(Spent) + Value(boarding \ Unspent(boarding))) = costs + Value(vtxos)
        /\ gains \in Int /\ costs \in Int
    BY <1>1, GainsBalance
  <2>6. Value(vtxos) = Value(live) + Value(Spent)
    <3>1. Value(vtxos) = Value(live) + Value(vtxos \ live)
      BY <1>2, <1>3, ValueSplit
    <3> QED
      BY <1>3, <3>1
  <2>7. Value(boarding) = Value(Unspent(boarding)) + Value(boarding \ Unspent(boarding))
    <3> DEFINE U == Unspent(boarding)
    <3>1. U \in SUBSET boarding
      BY DEF Unspent
    <3> HIDE DEF U
    <3>2. Value(boarding) = Value(U) + Value(boarding \ U)
      BY <1>2, <3>1, ValueSplit
    <3> QED
      BY <3>2 DEF U
  <2>8. Balance = Value(live) + Value(Unspent(boarding))
    BY ValueLive DEF Balance, live
  <2>9. /\ Value(live) \in Nat /\ Value(Spent) \in Nat /\ Value(Unspent(boarding)) \in Nat
        /\ Value(boarding \ Unspent(boarding)) \in Nat
    <3>1. Spent \in SUBSET vtxos /\ Unspent(boarding) \in SUBSET boarding
          /\ boarding \ Unspent(boarding) \in SUBSET boarding
      BY <1>3 DEF Unspent
    <3> QED
      BY <1>2, <1>3, <3>1, CoinsSubset, ValueNat
  <2> HIDE DEF gains, costs
  <2> QED
    BY <2>4, <2>5, <2>6, <2>7, <2>8, <2>9
<1> QED
  BY <1>3, <1>5

-----------------------------------------------------------------------------
(* What the history relies on: every step keeps it. *)

\* A marked coin is the coin it was.
SameCoin(p, v) ==
    /\ p.txid = v.txid /\ p.commitments = v.commitments /\ p.value = v.value
    /\ IsLeaf(p) <=> IsLeaf(v)

\* The transactions a step makes: batches, payments and leaves.
Apart(NB, NP, NL) ==
    /\ \A t \in NB \cup NP \cup NL : t \in Nat /\ ~(t <= txs)
    /\ NB \cap NP = {} /\ NL \cap NB = {} /\ NL \cap NP = {}

\* A vtxo of one of them, or the leaf of a batch that spent nothing of the wallet.
MadeBy(n, NB, NP, NL) ==
    /\ n.settledBy = 0 /\ n.arkTxId = 0
    /\ \/ /\ IsLeaf(n) /\ n.txid \in NL
          /\ \E k \in NB \cup (Batches \ Spenders) : n.commitments = {k} /\ k < n.txid
       \/ ~IsLeaf(n) /\ n.txid \in NP

\* What a step does to the vtxos: those of I are marked as f says and N are made.
VtxosMove(I, f, N, NB, NP) ==
    /\ I \subseteq {v \in vtxos : IsSpendable(v)}
    /\ \A v \in I : /\ SameCoin(f[v], v) /\ 0 \in {f[v].settledBy, f[v].arkTxId}
                   /\ f[v].settledBy \in NB \cup {0} /\ f[v].arkTxId \in NP \cup {0}
    /\ vtxos' = (vtxos \ I) \cup {f[v] : v \in I} \cup N

\* A coin after the step was one before, or is new.
LEMMA CoinsBefore ==
    ASSUME NEW I, NEW f, NEW N, NEW NB, NEW NP, VtxosMove(I, f, N, NB, NP)
    PROVE  \A w \in vtxos' : \/ w \in N
                             \/ \E v \in vtxos : /\ SameCoin(w, v) /\ Origin(w) = Origin(v)
                                                 /\ v \in I => w = f[v] /\ IsSpendable(v)
                                                 /\ v \notin I => w = v
<1> TAKE w \in vtxos'
<1>1. CASE w \in N
  BY <1>1
<1>2. CASE w \in vtxos \ I
  BY <1>2 DEF SameCoin
<1>3. CASE \E v \in I : w = f[v]
  <2>1. PICK v \in I : w = f[v]
    BY <1>3
  <2>2. v \in vtxos /\ IsSpendable(v) /\ SameCoin(w, v)
    BY <2>1 DEF VtxosMove
  <2>3. Origin(w) = Origin(v)
    BY <2>2 DEF SameCoin, Origin
  <2> QED
    BY <2>1, <2>2, <2>3
<1> QED
  BY <1>1, <1>2, <1>3 DEF VtxosMove

\* The transactions that were made, so far.
LEMMA Before ==
    ASSUME TypeOK, CoinsKnown, SpentOnce, OriginsTold
    PROVE  /\ txs \in Nat
           /\ \A t \in Batches \cup Payments \cup Leaves : t \in Nat /\ t <= txs
           /\ \A v \in vtxos : /\ Origin(v) \in Nat \ {0} /\ Origin(v) <= txs
                               /\ IsLeaf(v) => Origin(v) \in Batches /\ v.txid \in Leaves
                               /\ ~IsLeaf(v) => Origin(v) \in Payments
<1>1. txs \in Nat /\ MaxTx \in Nat /\ vtxos \subseteq VtxoType /\ boarding \subseteq UtxoType
  BY OffchainAssumption DEF TypeOK
<1>2. \A v \in vtxos : /\ v.txid \in Nat \ {0} /\ v.txid <= txs
                       /\ v.settledBy \in Nat /\ v.settledBy <= txs
                       /\ v.arkTxId \in Nat /\ v.arkTxId <= txs
  BY <1>1 DEF CoinsKnown, SpentOnce, VtxoType, TxIds, SpentBy
<1>3. \A u \in boarding : u.settledBy \in Nat /\ u.settledBy <= txs
  BY <1>1 DEF SpentOnce, UtxoType, SpentBy
<1>4. \A v \in vtxos : Origin(v) \in Nat \ {0} /\ Origin(v) <= txs
  <2> TAKE v \in vtxos
  <2>1. Origin(v) \in Nat \ {0}
    BY <1>1, Told DEF TxIds
  <2>2. CASE IsLeaf(v)
    <3>1. Origin(v) < v.txid
      BY <2>2 DEF OriginsTold
    <3> QED
      BY <1>1, <1>2, <2>1, <3>1
  <2>3. CASE ~IsLeaf(v)
    BY <1>2, <2>1, <2>3 DEF Origin
  <2> QED
    BY <2>2, <2>3
<1>5. \A t \in Batches \cup Payments \cup Leaves : t \in Nat /\ t <= txs
  BY <1>2, <1>3, <1>4 DEF Batches, Payments, Leaves
<1>6. \A v \in vtxos : /\ IsLeaf(v) => Origin(v) \in Batches /\ v.txid \in Leaves
                       /\ ~IsLeaf(v) => Origin(v) \in Payments
  BY DEF Origin, Batches, Payments, Leaves
<1> QED
  BY <1>1, <1>4, <1>5, <1>6

\* The transaction a new vtxo answers for.
LEMMA OriginOfMade ==
    ASSUME NEW NB, NEW NP, NEW NL, NEW n, MadeBy(n, NB, NP, NL)
    PROVE  /\ IsLeaf(n) => /\ n.commitments = {Origin(n)} /\ Origin(n) < n.txid /\ n.txid \in NL
                           /\ Origin(n) \in NB \cup (Batches \ Spenders)
           /\ ~IsLeaf(n) => Origin(n) = n.txid /\ n.txid \in NP
<1>1. CASE IsLeaf(n)
  <2>1. PICK k \in NB \cup (Batches \ Spenders) : n.commitments = {k} /\ k < n.txid
    BY <1>1 DEF MadeBy
  <2>2. Origin(n) = k
    BY <1>1, <2>1 DEF Origin
  <2> QED
    BY <1>1, <2>1, <2>2 DEF MadeBy
<1>2. CASE ~IsLeaf(n)
  BY <1>2 DEF MadeBy, Origin
<1> QED
  BY <1>1, <1>2

\* A step whose transactions are new, and that makes one vtxo at most, leaves
\* the origins told.
LEMMA OriginsMove ==
    ASSUME TypeOK, CoinsKnown, SpentOnce, OriginsTold,
           NEW I, NEW f, NEW N, NEW NB, NEW NP, NEW NL,
           VtxosMove(I, f, N, NB, NP), Apart(NB, NP, NL),
           \A n \in N : MadeBy(n, NB, NP, NL),
           \A m, n \in N : m = n,
           \A u \in boarding' : u.settledBy \in NB \cup {0} \/ u \in boarding,
           batch' \in Batches' \cup {0}
    PROVE  OriginsTold'
<1>1. \A w \in vtxos' : \/ w \in N
                        \/ \E v \in vtxos : /\ SameCoin(w, v) /\ Origin(w) = Origin(v)
                                            /\ v \in I => w = f[v] /\ IsSpendable(v)
                                            /\ v \notin I => w = v
  BY CoinsBefore
<1>2. /\ \A t \in Batches \cup Payments \cup Leaves : t \in Nat /\ t <= txs
      /\ \A v \in vtxos : /\ Origin(v) \in Nat \ {0} /\ Origin(v) <= txs
                          /\ IsLeaf(v) => Origin(v) \in Batches /\ v.txid \in Leaves
                          /\ ~IsLeaf(v) => Origin(v) \in Payments
  BY Before
<1>3. \A n \in N : /\ IsLeaf(n) => /\ n.commitments = {Origin(n)} /\ Origin(n) < n.txid /\ n.txid \in NL
                                   /\ Origin(n) \in NB \cup (Batches \ Spenders)
                   /\ ~IsLeaf(n) => Origin(n) = n.txid /\ n.txid \in NP
  BY OriginOfMade
<1>4. \A w \in vtxos' : IsLeaf(w) => w.commitments = {Origin(w)} /\ Origin(w) < w.txid
  <2> SUFFICES ASSUME NEW w \in vtxos', IsLeaf(w)
               PROVE  w.commitments = {Origin(w)} /\ Origin(w) < w.txid
    OBVIOUS
  <2>1. CASE w \in N
    BY <1>3, <2>1
  <2>2. CASE w \notin N
    <3>1. PICK v \in vtxos : SameCoin(w, v) /\ Origin(w) = Origin(v)
      BY <1>1, <2>2
    <3> QED
      BY <3>1 DEF OriginsTold, SameCoin
  <2> QED
    BY <2>1, <2>2
<1>5. Spenders' \subseteq Spenders \cup NB \cup NP \cup {0}
  <2>1. \A w \in vtxos' : Spender(w) \in Spenders \cup NB \cup NP \cup {0}
    <3> TAKE w \in vtxos'
    <3>1. CASE w \in N
      BY <3>1 DEF MadeBy, Spender
    <3>2. CASE w \in vtxos
      BY <3>2 DEF Spenders
    <3>3. CASE \E v \in I : w = f[v]
      <4>1. /\ w.settledBy \in NB \cup {0} /\ w.arkTxId \in NP \cup {0}
            /\ w.settledBy = 0 \/ w.arkTxId = 0
        BY <3>3 DEF VtxosMove
      <4>2. \A t \in NB \cup NP \cup {0} : t \in Nat
        BY DEF Apart
      <4> QED
        BY <4>1, <4>2 DEF Spender
    <3> QED
      BY <3>1, <3>2, <3>3 DEF VtxosMove
  <2>2. \A u \in boarding' : u.settledBy \in Spenders \cup NB \cup {0}
    BY DEF Spenders
  <2>3. Spenders' = {Spender(v) : v \in vtxos'} \cup {u.settledBy : u \in boarding'}
    BY DEF Spenders, Spender
  <2> QED
    BY <2>1, <2>2, <2>3
<1>6. ASSUME NEW w \in vtxos', NEW x \in vtxos', Origin(w) = Origin(x), Origin(w) \in Spenders'
      PROVE  w = x
  <2> DEFINE t == Origin(w)
  <2>1. t # 0
    <3>1. CASE w \in N
      BY <1>2, <1>3, <3>1, Before DEF Apart, Batches
    <3>2. CASE w \notin N
      BY <1>1, <1>2, <3>2
    <3> QED
      BY <3>1, <3>2
  <2>2. t \in Spenders \/ t \in NB \cup NP
    BY <1>5, <1>6, <2>1
  <2>3. CASE t \in NB \cup NP
    <3>1. \A v \in vtxos : Origin(v) # t
      BY <1>2, <2>3 DEF Apart
    <3>2. w \in N /\ x \in N
      BY <1>1, <1>6, <3>1
    <3> QED
      BY <3>2
  <2>4. CASE t \in Spenders /\ t \notin NB \cup NP
    <3>1. w \notin N /\ x \notin N
      BY <1>3, <1>6, <2>4
    <3>2. PICK v \in vtxos : Origin(w) = Origin(v) /\ (v \in I => w = f[v]) /\ (v \notin I => w = v)
      BY <1>1, <3>1
    <3>3. PICK y \in vtxos : Origin(x) = Origin(y) /\ (y \in I => x = f[y]) /\ (y \notin I => x = y)
      BY <1>1, <3>1
    <3>4. v = y
      BY <1>6, <2>4, <3>2, <3>3 DEF OriginsTold
    <3> QED
      BY <3>2, <3>3, <3>4
  <2> QED
    BY <2>2, <2>3, <2>4
<1>7. Batches' \subseteq Batches \cup NB /\ Payments' \subseteq Payments \cup NP /\ Leaves' \subseteq Leaves \cup NL
  <2>1. \A w \in vtxos' :
           /\ IsLeaf(w) => Origin(w) \in Batches \cup NB /\ w.txid \in Leaves \cup NL
           /\ ~IsLeaf(w) => w.txid \in Payments \cup NP
    <3> TAKE w \in vtxos'
    <3>1. CASE w \in N
      BY <1>3, <3>1
    <3>2. CASE w \notin N
      <4>1. PICK v \in vtxos : SameCoin(w, v) /\ Origin(w) = Origin(v)
        BY <1>1, <3>2
      <4> QED
        BY <1>2, <4>1 DEF SameCoin, Origin
    <3> QED
      BY <3>1, <3>2
  <2>2. \A w \in vtxos' : /\ w.settledBy \in Batches \cup NB \cup {0}
                          /\ w.arkTxId \in Payments \cup NP \cup {0}
    BY <1>1 DEF Batches, Payments, MadeBy, VtxosMove
  <2>3. \A u \in boarding' : u.settledBy \in Batches \cup NB \cup {0}
    BY DEF Batches
  <2>4. Batches' \subseteq Batches \cup NB
    <3> DEFINE X == Batches \cup NB
    <3>1. /\ \A w \in vtxos' : IsLeaf(w) => Origin(w) \in X
          /\ \A w \in vtxos' \cup boarding' : w.settledBy \in X \cup {0}
      BY <2>1, <2>2, <2>3
    <3>2. Batches' = {Origin(v) : v \in {w \in vtxos' : IsLeaf(w)}}
                       \cup ({v.settledBy : v \in vtxos' \cup boarding'} \ {0})
      BY DEF Batches, Origin, IsLeaf
    <3> HIDE DEF X
    <3>3. Batches' \subseteq X
      BY <3>1, <3>2
    <3> QED
      BY <3>3 DEF X
  <2>5. Payments' \subseteq Payments \cup NP
    <3> DEFINE X == Payments \cup NP
    <3>1. /\ \A w \in vtxos' : ~IsLeaf(w) => w.txid \in X
          /\ \A w \in vtxos' : w.arkTxId \in X \cup {0}
      BY <2>1, <2>2
    <3>2. Payments' = {v.txid : v \in {w \in vtxos' : ~IsLeaf(w)}}
                        \cup ({v.arkTxId : v \in vtxos'} \ {0})
      BY DEF Payments, IsLeaf
    <3> HIDE DEF X
    <3>3. Payments' \subseteq X
      BY <3>1, <3>2
    <3> QED
      BY <3>3 DEF X
  <2>6. Leaves' \subseteq Leaves \cup NL
    <3> DEFINE X == Leaves \cup NL
    <3>1. \A w \in vtxos' : IsLeaf(w) => w.txid \in X
      BY <2>1
    <3>2. Leaves' = {v.txid : v \in {w \in vtxos' : IsLeaf(w)}}
      BY DEF Leaves, IsLeaf
    <3> HIDE DEF X
    <3>3. Leaves' \subseteq X
      BY <3>1, <3>2
    <3> QED
      BY <3>3 DEF X
  <2> QED
    BY <2>4, <2>5, <2>6
<1>8. Batches' \cap Payments' = {} /\ Leaves' \cap (Batches' \cup Payments') = {}
  <2>1. Batches \cap Payments = {} /\ Leaves \cap (Batches \cup Payments) = {}
    BY DEF OriginsTold
  <2>2. \A t \in NB \cup NP \cup NL : t \notin Batches \cup Payments \cup Leaves
    BY <1>2 DEF Apart
  <2> QED
    BY <1>7, <2>1, <2>2 DEF Apart
<1>9. OriginsTold' = /\ \A v \in vtxos' : IsLeaf(v) => v.commitments = {Origin(v)} /\ Origin(v) < v.txid
                     /\ \A v, w \in vtxos' : Origin(v) = Origin(w) /\ Origin(v) \in Spenders' => v = w
                     /\ Batches' \cap Payments' = {} /\ Leaves' \cap (Batches' \cup Payments') = {}
                     /\ batch' \in Batches' \cup {0}
  BY DEF OriginsTold, IsLeaf, Origin
<1> QED
  BY <1>4, <1>6, <1>8, <1>9

\* A batch that settled boarding utxos gave their value back.
ComesBack(V, B, txid) ==
    Value({v \in V : Origin(v) = txid})
      = Value({v \in V : v.settledBy = txid}) + Value({u \in B : u.settledBy = txid})

\* A step that marks coins with new transactions leaves the old batches alone.
LEMMA OldBatch ==
    ASSUME TypeOK, CoinsKnown, SpentOnce, OriginsTold, OriginsTold',
           NEW I, NEW f, NEW N, NEW NB, NEW NP, NEW NL,
           VtxosMove(I, f, N, NB, NP), Apart(NB, NP, NL),
           \A n \in N : MadeBy(n, NB, NP, NL),
           NEW b \in BoardingBatches(boarding), ComesBack(vtxos, boarding, b),
           {u \in boarding' : u.settledBy = b} = {u \in boarding : u.settledBy = b}
    PROVE  ComesBack(vtxos', boarding', b)
<1>1. \A w \in vtxos' : \/ w \in N
                        \/ \E v \in vtxos : /\ SameCoin(w, v) /\ Origin(w) = Origin(v)
                                            /\ v \in I => w = f[v] /\ IsSpendable(v)
                                            /\ v \notin I => w = v
  BY CoinsBefore
<1>2. b \in Batches /\ b # 0 /\ b \notin NB \cup NP
  <2>1. b \in Batches /\ b # 0
    BY DEF BoardingBatches, Batches
  <2>2. b <= txs
    BY <2>1, Before
  <2> QED
    BY <2>1, <2>2 DEF Apart
<1>3. b \in Spenders /\ b \in Spenders'
  <2>1. PICK u \in boarding : u.settledBy = b
    BY DEF BoardingBatches
  <2>2. u \in boarding' /\ b # 0
    BY <1>2, <2>1
  <2>3. Spenders' = {Spender(v) : v \in vtxos'} \cup {w.settledBy : w \in boarding'}
    BY DEF Spenders, Spender
  <2> QED
    BY <2>1, <2>2, <2>3 DEF Spenders
<1>4. \A v, w \in vtxos' : Origin(v) = Origin(w) /\ Origin(v) = b => v = w
  <2>1. \A v, w \in vtxos' : Origin(v) = Origin(w) /\ Origin(v) \in Spenders' => v = w
    BY DEF OriginsTold, Origin, IsLeaf
  <2> QED
    BY <1>3, <2>1
<1>5. \A n \in N : Origin(n) # b /\ n.settledBy # b
  BY <1>2, <1>3, OriginOfMade DEF MadeBy
<1>6. {v \in vtxos' : v.settledBy = b} = {v \in vtxos : v.settledBy = b}
  <2>1. ASSUME NEW w \in vtxos', w.settledBy = b
        PROVE  w \in vtxos
    <3>1. PICK v \in vtxos : (v \in I => w = f[v]) /\ (v \notin I => w = v)
      BY <1>1, <1>5, <2>1
    <3>2. v \notin I
      BY <1>2, <2>1, <3>1 DEF VtxosMove
    <3> QED
      BY <3>1, <3>2
  <2>2. ASSUME NEW v \in vtxos, v.settledBy = b
        PROVE  v \in vtxos'
    BY <1>2, <2>2 DEF VtxosMove, IsSpendable
  <2> QED
    BY <2>1, <2>2
<1>7. Value({v \in vtxos' : Origin(v) = b}) = Value({v \in vtxos : Origin(v) = b})
  <2>1. CASE \E v \in vtxos : Origin(v) = b
    <3>1. PICK v \in vtxos : Origin(v) = b
      BY <2>1
    <3> DEFINE w == IF v \in I THEN f[v] ELSE v
    <3>2. w \in vtxos' /\ SameCoin(w, v) /\ Origin(w) = b
      BY <3>1 DEF VtxosMove, SameCoin, Origin
    <3>3. {x \in vtxos : Origin(x) = b} = {v}
      BY <1>3, <3>1 DEF OriginsTold
    <3>4. {x \in vtxos' : Origin(x) = b} = {w}
      BY <1>4, <3>2
    <3>5. v.value \in Nat /\ w.value = v.value
      BY <3>2, Told DEF SameCoin
    <3> HIDE DEF w
    <3>6. Value({v}) = v.value /\ Value({w}) = w.value
      BY <3>5, ValueOne
    <3> QED
      BY <3>3, <3>4, <3>5, <3>6
  <2>2. CASE ~ \E v \in vtxos : Origin(v) = b
    <3>1. {x \in vtxos : Origin(x) = b} = {}
      BY <2>2
    <3>2. {x \in vtxos' : Origin(x) = b} = {}
      BY <1>1, <1>5, <2>2
    <3> QED
      BY <3>1, <3>2
  <2> QED
    BY <2>1, <2>2
<1> QED
  BY <1>6, <1>7 DEF ComesBack

\* What spending once says of coins after a step.
LEMMA SpentOnceMoves ==
    ASSUME TypeOK, SpentOnce, txs' \in Nat, txs <= txs',
           \A w \in vtxos' : \/ \E v \in vtxos : w.settledBy = v.settledBy /\ w.arkTxId = v.arkTxId
                             \/ /\ 0 \in {w.settledBy, w.arkTxId}
                                /\ w.settledBy <= txs' /\ w.arkTxId <= txs',
           \A u \in boarding' : u.settledBy <= txs' \/ u \in boarding
    PROVE  SpentOnce'
<1>1. /\ \A v \in vtxos : v.settledBy \in Nat /\ v.arkTxId \in Nat
      /\ \A u \in boarding : u.settledBy \in Nat
      /\ txs \in Nat
  BY OffchainAssumption DEF TypeOK, VtxoType, UtxoType, SpentBy
<1>2. \A v \in vtxos : v.settledBy <= txs' /\ v.arkTxId <= txs' /\ 0 \in {v.settledBy, v.arkTxId}
  BY <1>1 DEF SpentOnce
<1>3. \A u \in boarding : u.settledBy <= txs'
  BY <1>1 DEF SpentOnce
<1>4. \A w \in vtxos' : w.settledBy <= txs' /\ w.arkTxId <= txs' /\ 0 \in {w.settledBy, w.arkTxId}
  BY <1>2
<1> QED
  BY <1>3, <1>4 DEF SpentOnce

\* The history is about the coins alone.
LEMMA HistoryStays ==
    ASSUME HistoryInv, UNCHANGED <<vtxos, boarding, txs, batch, unusual>>
    PROVE  HistoryInv'
BY DEF HistoryInv, SpentOnce, OriginsTold, BoardingComesBack, Batches, Payments, Leaves,
       Spenders, BoardingBatches

\* Batches that gave the value of boarding utxos back, one by one.
LEMMA ComesBackEach ==
    /\ BoardingComesBack <=> \A b \in BoardingBatches(boarding) : ComesBack(vtxos, boarding, b)
    /\ BoardingComesBack' <=> \A b \in BoardingBatches(boarding') : ComesBack(vtxos', boarding', b)
<1>1. BoardingComesBack <=> \A b \in BoardingBatches(boarding) : ComesBack(vtxos, boarding, b)
  BY DEF BoardingComesBack, ComesBack
<1>2. BoardingComesBack' <=> \A b \in BoardingBatches(boarding') : ComesBack(vtxos', boarding', b)
  BY DEF BoardingComesBack, ComesBack, BoardingBatches
<1> QED
  BY <1>1, <1>2

\* A step that settles no boarding utxo.
LEMMA HistoryMoves ==
    ASSUME TypeOK, CoinsKnown, HistoryInv, SpentOnce', unusual' \in BOOLEAN, ~unusual' => ~unusual,
           NEW I, NEW f, NEW N, NEW NB, NEW NP, NEW NL,
           VtxosMove(I, f, N, NB, NP), Apart(NB, NP, NL),
           ~unusual' => \A n \in N : MadeBy(n, NB, NP, NL),
           ~unusual' => \A m, n \in N : m = n,
           \A t \in TxIds : {u \in boarding' : u.settledBy = t} = {u \in boarding : u.settledBy = t},
           BoardingBatches(boarding') = BoardingBatches(boarding),
           BoardingBatches(boarding) \subseteq TxIds,
           \A u \in boarding' : u.settledBy \in NB \cup {0} \/ u \in boarding,
           ~unusual' => batch' \in Batches' \cup {0}
    PROVE  HistoryInv'
<1> SUFFICES ASSUME ~unusual'
             PROVE  OriginsTold' /\ BoardingComesBack'
  BY DEF HistoryInv
<1>1. SpentOnce /\ OriginsTold /\ BoardingComesBack
  BY DEF HistoryInv
<1>2. (\A n \in N : MadeBy(n, NB, NP, NL)) /\ (\A m, n \in N : m = n) /\ batch' \in Batches' \cup {0}
  OBVIOUS
<1>3. OriginsTold'
  BY <1>1, <1>2, OriginsMove
<1>4. ASSUME NEW b \in BoardingBatches(boarding)
      PROVE  ComesBack(vtxos', boarding', b)
  <2>1. ComesBack(vtxos, boarding, b)
    BY <1>1, <1>4, ComesBackEach
  <2>2. {u \in boarding' : u.settledBy = b} = {u \in boarding : u.settledBy = b}
    OBVIOUS
  <2>3. \A n \in N : MadeBy(n, NB, NP, NL)
    BY <1>2
  <2> QED
    BY <1>1, <1>3, <2>1, <2>2, <2>3, OldBatch
<1>5. BoardingComesBack'
  BY <1>4, ComesBackEach
<1> QED
  BY <1>3, <1>5

\* What a payment makes, coin by coin.
LEMMA CreatedEach ==
    ASSUME NEW c \in Call, NEW txid
    PROVE  /\ \A n \in Created(c, txid) :
                 /\ n.txid = txid /\ n.settledBy = 0 /\ n.arkTxId = 0
                 /\ n.state \in {"swept", "preconfirmed"} /\ n.vout \in {1, 2}
           /\ \A m, n \in Created(c, txid) : m.vout = n.vout => m = n
<1> DEFINE own == IF call[c].toSelf
                  THEN <<call[c].outputs.out, call[c].outputs.vtxo>>
                  ELSE <<0, call[c].outputs.vtxo>>
           W(i) == Vtxo(txid, i, own[i], IF own[i] < DustAmount THEN "swept" ELSE "preconfirmed",
                        UNION {v.commitments : v \in call[c].inputs}, Earliest(call[c].inputs))
<1>1. Created(c, txid) = {W(i) : i \in {j \in 1 .. 2 : own[j] > 0}}
  BY DEF Created
<1>2. \A i : /\ W(i).txid = txid /\ W(i).settledBy = 0 /\ W(i).arkTxId = 0
             /\ W(i).state \in {"swept", "preconfirmed"} /\ W(i).vout = i
  BY DEF Vtxo
<1> HIDE DEF W
<1>3. \A n \in Created(c, txid) : n.vout \in {1, 2} /\ n = W(n.vout)
  <2>1. 1 .. 2 = {1, 2}
    OBVIOUS
  <2> HIDE DEF own
  <2> QED
    BY <1>1, <1>2, <2>1
<1>4. \A n \in Created(c, txid) : \E i : n = W(i)
  BY <1>3
<1> QED
  BY <1>2, <1>3, <1>4

\* Unless there are two of them, there is at most one.
LEMMA CreatedAlone ==
    ASSUME NEW c \in Call, NEW txid, Cardinality(Created(c, txid)) # 2
    PROVE  \A m, n \in Created(c, txid) : m = n
<1> DEFINE N == Created(c, txid)
<1> SUFFICES ASSUME NEW m \in N, NEW n \in N, m # n
             PROVE  FALSE
  OBVIOUS
<1>1. N = {m, n}
  <2>1. \A x \in N : x.vout \in {1, 2}
    BY CreatedEach
  <2>2. \A x, y \in N : x.vout = y.vout => x = y
    BY CreatedEach
  <2> HIDE DEF N
  <2> QED
    BY <2>1, <2>2
<1>2. Cardinality({m, n}) = 2
  <2>1. IsFiniteSet({m}) /\ Cardinality({m}) = 1
    BY FS_Singleton
  <2> DEFINE S == {m}
  <2>2. n \notin S
    OBVIOUS
  <2> HIDE DEF S
  <2>3. Cardinality(S \cup {n}) = Cardinality(S) + 1
    BY <2>1, <2>2, FS_AddElement DEF S
  <2>4. {m, n} = {m} \cup {n}
    OBVIOUS
  <2> QED
    BY <2>1, <2>3, <2>4 DEF S
<1> QED
  BY <1>1, <1>2

\* finalizeTx: the payment made what it is remembered for.
LEMMA FinalizeTold ==
    ASSUME IInv, HistoryInv, NEW c \in Call, Finalize(c)
    PROVE  HistoryInv'
<1> DEFINE I == call[c].inputs
           k == txs + 1
           N == Created(c, k)
           f == [v \in I |-> [v EXCEPT !.arkTxId = k]]
<1>0. /\ TypeOK /\ CoinsKnown /\ CallsBalance /\ InputsReserved /\ SpentOnce
      /\ call[c].pc = "submitted" /\ txs < MaxTx /\ txs' = txs + 1 /\ boarding' = boarding
      /\ I \subseteq reserved /\ reserved \subseteq {v \in vtxos : IsSpendable(v)}
  BY DEF IInv, HistoryInv, Finalize, InputsReserved, TypeOK, CallsBalance
<1>1. txs \in Nat /\ txs' \in Nat /\ txs <= txs' /\ k \in Nat /\ ~(k <= txs) /\ k <= txs'
  BY <1>0, OffchainAssumption DEF TypeOK
<1>2. /\ \A n \in N : /\ n.txid = k /\ n.settledBy = 0 /\ n.arkTxId = 0
                      /\ n.state \in {"swept", "preconfirmed"}
      /\ Cardinality(N) # 2 => \A m, n \in N : m = n
  BY CreatedEach, CreatedAlone
<1>3. unusual' = (unusual \/ Cardinality(N) = 2 \/ \E v \in N : v.state = "swept")
  BY DEF Finalize
<1>4. vtxos' = (vtxos \ I) \cup {f[v] : v \in I} \cup N
  BY DEF Finalize, PaidBy
<1>5. \A v \in I : SameCoin(f[v], v) /\ f[v].settledBy = 0 /\ f[v].arkTxId = k
  <2> TAKE v \in I
  <2>1. v \in VtxoType /\ f[v] = [v EXCEPT !.arkTxId = k] /\ IsSpendable(v)
    BY <1>0 DEF TypeOK
  <2> HIDE DEF f, k
  <2> QED
    BY <2>1 DEF VtxoType, SameCoin, IsLeaf, IsSpendable
<1> HIDE DEF N, f, k
<1>6. VtxosMove(I, f, N, {}, {k})
  BY <1>0, <1>4, <1>5 DEF VtxosMove
<1>7. Apart({}, {k}, {})
  BY <1>1 DEF Apart
<1>8. unusual' \in BOOLEAN /\ (~unusual' => ~unusual)
  BY <1>0, <1>3 DEF TypeOK
<1>9. batch' \in Batches' \cup {0}
  BY DEF Finalize
<1>10. ~unusual' => \A n \in N : MadeBy(n, {}, {k}, {})
  <2> SUFFICES ASSUME ~unusual', NEW n \in N
               PROVE  MadeBy(n, {}, {k}, {})
    OBVIOUS
  <2>1. n.txid = k /\ n.settledBy = 0 /\ n.arkTxId = 0 /\ n.state = "preconfirmed"
    BY <1>2, <1>3
  <2> QED
    BY <2>1 DEF MadeBy, IsLeaf
<1>11. ~unusual' => \A m, n \in N : m = n
  BY <1>2, <1>3
<1>12. SpentOnce'
  <2>1. \A w \in vtxos' : \/ \E v \in vtxos : w.settledBy = v.settledBy /\ w.arkTxId = v.arkTxId
                          \/ /\ 0 \in {w.settledBy, w.arkTxId}
                             /\ w.settledBy <= txs' /\ w.arkTxId <= txs'
    <3> TAKE w \in vtxos'
    <3>1. CASE w \in N
      BY <1>1, <1>2, <3>1
    <3>2. CASE w \in vtxos
      BY <3>2
    <3>3. CASE \E v \in I : w = f[v]
      BY <1>1, <1>5, <3>3
    <3> QED
      BY <1>4, <3>1, <3>2, <3>3
  <2>2. \A u \in boarding' : u.settledBy <= txs' \/ u \in boarding
    BY <1>0
  <2> QED
    BY <1>0, <1>1, <2>1, <2>2, SpentOnceMoves
<1>13. /\ \A t \in TxIds : {u \in boarding' : u.settledBy = t} = {u \in boarding : u.settledBy = t}
       /\ BoardingBatches(boarding') = BoardingBatches(boarding)
       /\ \A u \in boarding' : u.settledBy \in {} \cup {0} \/ u \in boarding
  BY <1>0
<1>14. BoardingBatches(boarding) \subseteq TxIds
  BY <1>0, OffchainAssumption DEF TypeOK, UtxoType, SpentBy, TxIds, BoardingBatches
<1> DEFINE NB == {}
           NP == {k}
           NL == {}
<1>15. VtxosMove(I, f, N, NB, NP) /\ Apart(NB, NP, NL) /\ (~unusual' => \A n \in N : MadeBy(n, NB, NP, NL))
       /\ \A u \in boarding' : u.settledBy \in NB \cup {0} \/ u \in boarding
  BY <1>6, <1>7, <1>10, <1>13
<1> HIDE DEF NB, NP, NL, I
<1> QED
  BY <1>0, <1>8, <1>11, <1>12, <1>13, <1>14, <1>15, <1>9, HistoryMoves

\* A payment received, by another wallet's transaction or in a batch, made one
\* vtxo, and the batch spent nothing of the wallet.
LEMMA ReceiveTold ==
    ASSUME IInv, HistoryInv, Receive
    PROVE  HistoryInv'
<1>0. TypeOK /\ CoinsKnown /\ SpentOnce /\ boarding' = boarding
  BY DEF IInv, HistoryInv, Receive
<1>1. PICK k \in Commitments : \E value \in Incomes, expiry \in Expiry(k) :
         /\ Leaf(k) <= MaxTx /\ txs' = Leaf(k)
         /\ \/ /\ vtxos' = vtxos \cup {Vtxo(Leaf(k), 0, value, "settled", {k}, expiry)}
               /\ batch' = k /\ unusual' = (unusual \/ SettledIn(k))
            \/ /\ vtxos' = vtxos \cup {Vtxo(Leaf(k), 0, value, "preconfirmed", {k}, expiry)}
               /\ batch' = 0 /\ unusual' = unusual
  BY DEF Receive
<1>2. PICK value \in Incomes, expiry \in Expiry(k), state \in {"settled", "preconfirmed"} :
         /\ vtxos' = vtxos \cup {Vtxo(Leaf(k), 0, value, state, {k}, expiry)}
         /\ state = "settled" => batch' = k /\ unusual' = (unusual \/ SettledIn(k))
         /\ state # "settled" => batch' = 0 /\ unusual' = unusual
  BY <1>1
<1> DEFINE leaf == Leaf(k)
           n == Vtxo(leaf, 0, value, state, {k}, expiry)
           N == {n}
           I == {}
           f == [v \in I |-> v]
           NB == IF state = "settled" /\ k > txs THEN {k} ELSE {}
           NP == IF state = "settled" THEN {} ELSE {leaf}
           NL == IF state = "settled" THEN {leaf} ELSE {}
<1>3. /\ k \in TxIds /\ leaf \in TxIds /\ txs \in Nat /\ k < leaf /\ k # 0 /\ leaf > txs
      /\ k > txs \/ k = batch
      /\ txs' = leaf
  BY <1>0, <1>1, LeafIs
<1>4. k \in Nat /\ leaf \in Nat /\ txs' \in Nat /\ txs <= txs' /\ ~(leaf <= txs) /\ k # leaf
  BY <1>3 DEF TxIds
<1>5. /\ n.txid = leaf /\ n.state = state /\ n.commitments = {k}
      /\ n.settledBy = 0 /\ n.arkTxId = 0
      /\ IsLeaf(n) <=> state = "settled"
  BY DEF Vtxo, IsLeaf
<1>6. vtxos' = vtxos \cup {n}
  BY <1>2
<1> HIDE DEF n, leaf
<1>7. VtxosMove(I, f, N, NB, NP)
  BY <1>6 DEF VtxosMove
<1>8. Apart(NB, NP, NL)
  <2>1. \A t \in NB : t = k /\ t \in Nat /\ ~(t <= txs)
    BY <1>3, <1>4
  <2>2. \A t \in NP \cup NL : t = leaf /\ t \in Nat /\ ~(t <= txs)
    BY <1>4
  <2>3. NP \cap NL = {} /\ NB \cap NP = {} /\ NL \cap NB = {}
    <3>1. NP = {} \/ NL = {}
      OBVIOUS
    <3> HIDE DEF NB, NP, NL
    <3> QED
      BY <1>4, <2>1, <2>2, <3>1
  <2> HIDE DEF NB, NP, NL
  <2> QED
    BY <2>1, <2>2, <2>3 DEF Apart
<1>9. unusual' \in BOOLEAN /\ (~unusual' => ~unusual)
  <2>1. unusual \in BOOLEAN /\ unusual' \in {unusual, unusual \/ SettledIn(k)}
    BY <1>0, <1>2 DEF TypeOK
  <2> QED
    BY <2>1 DEF SettledIn
<1>10. ASSUME ~unusual'
       PROVE  MadeBy(n, NB, NP, NL) /\ batch' \in Batches' \cup {0}
  <2>1. CASE state = "settled"
    <3>1. k \in NB \cup (Batches \ Spenders)
      <4>1. CASE k > txs
        BY <2>1, <4>1
      <4>2. CASE ~(k > txs)
        <5>1. OriginsTold /\ ~SettledIn(k) /\ k = batch
          BY <1>2, <1>3, <1>9, <1>10, <2>1, <4>2 DEF HistoryInv
        <5>2. k \in Batches
          BY <1>3, <5>1 DEF OriginsTold
        <5>3. \A v \in vtxos : v.settledBy # k /\ v.arkTxId # k
          BY <1>3, <5>1, <5>2 DEF SettledIn, OriginsTold, Payments
        <5>4. \A v \in vtxos : Spender(v) = v.settledBy \/ Spender(v) = v.arkTxId
          BY <1>0, OffchainAssumption DEF TypeOK, VtxoType, SpentBy, SpentOnce, Spender
        <5>5. k \notin Spenders
          BY <5>1, <5>3, <5>4 DEF Spenders, SettledIn
        <5> QED
          BY <5>2, <5>5
      <4> QED
        BY <4>1, <4>2
    <3>2. Batches' = {Origin(v) : v \in {w \in vtxos' : IsLeaf(w)}}
                       \cup ({v.settledBy : v \in vtxos' \cup boarding'} \ {0})
      BY DEF Batches, Origin, IsLeaf
    <3>3. Origin(n) = k
      BY <1>5, <2>1 DEF Origin
    <3>4. batch' \in Batches'
      BY <1>2, <1>5, <1>6, <2>1, <3>2, <3>3
    <3> HIDE DEF NB
    <3> QED
      BY <1>3, <1>5, <2>1, <3>1, <3>4 DEF MadeBy
  <2>2. CASE state # "settled"
    BY <1>2, <1>5, <2>2 DEF MadeBy
  <2> QED
    BY <2>1, <2>2
<1>11. /\ ~unusual' => \A m \in N : MadeBy(m, NB, NP, NL)
       /\ ~unusual' => \A l, m \in N : l = m
       /\ ~unusual' => batch' \in Batches' \cup {0}
  BY <1>10
<1>12. SpentOnce'
  <2>1. \A w \in vtxos' : \/ \E v \in vtxos : w.settledBy = v.settledBy /\ w.arkTxId = v.arkTxId
                          \/ /\ 0 \in {w.settledBy, w.arkTxId}
                             /\ w.settledBy <= txs' /\ w.arkTxId <= txs'
    BY <1>4, <1>5, <1>6
  <2>2. \A u \in boarding' : u.settledBy <= txs' \/ u \in boarding
    BY <1>0
  <2> QED
    BY <1>0, <1>4, <2>1, <2>2, SpentOnceMoves
<1>13. /\ \A t \in TxIds : {u \in boarding' : u.settledBy = t} = {u \in boarding : u.settledBy = t}
       /\ BoardingBatches(boarding') = BoardingBatches(boarding)
       /\ \A u \in boarding' : u.settledBy \in NB \cup {0} \/ u \in boarding
  BY <1>0
<1>14. BoardingBatches(boarding) \subseteq TxIds
  BY <1>0, OffchainAssumption DEF TypeOK, UtxoType, SpentBy, TxIds, BoardingBatches
<1> HIDE DEF NB, NP, NL, I, f, N
<1> QED
  BY <1>0, <1>7, <1>8, <1>9, <1>11, <1>12, <1>13, <1>14, HistoryMoves

\* What is swept keeps its batch, and stays its leaf.
LEMMA SweepTold ==
    ASSUME IInv, HistoryInv, NEW k \in TxIds, Sweep(k)
    PROVE  HistoryInv'
<1> DEFINE I == {v \in vtxos \ reserved : IsSpendable(v) /\ v.state # "swept" /\ k \in v.commitments}
           f == [v \in I |-> [v EXCEPT !.state = "swept"]]
           N == {}
           NB == {}
           NP == {}
           NL == {}
<1>0. /\ TypeOK /\ CoinsKnown /\ SpentOnce /\ boarding' = boarding /\ txs' = txs /\ batch' = 0
      /\ vtxos' = (vtxos \ I) \cup {f[v] : v \in I} \cup N
      /\ unusual' = (unusual \/ \E v \in I : v.state = "preconfirmed")
  BY DEF IInv, HistoryInv, Sweep
<1>1. \A v \in I : v \in VtxoType /\ v \in vtxos /\ IsSpendable(v) /\ f[v] = [v EXCEPT !.state = "swept"]
  BY <1>0 DEF TypeOK
<1>2. \A v \in I : /\ f[v].txid = v.txid /\ f[v].commitments = v.commitments /\ f[v].value = v.value
                   /\ f[v].settledBy = 0 /\ f[v].arkTxId = 0 /\ f[v].state = "swept"
  <2> TAKE v \in I
  <2>1. v \in VtxoType /\ IsSpendable(v) /\ f[v] = [v EXCEPT !.state = "swept"]
    BY <1>1
  <2> HIDE DEF I, f
  <2> QED
    BY <2>1, SweptType DEF IsSpendable
<1>3. unusual' \in BOOLEAN /\ (~unusual' => ~unusual)
  BY <1>0 DEF TypeOK
<1>4. SpentOnce'
  <2>1. \A w \in vtxos' : \/ \E v \in vtxos : w.settledBy = v.settledBy /\ w.arkTxId = v.arkTxId
                          \/ /\ 0 \in {w.settledBy, w.arkTxId}
                             /\ w.settledBy <= txs' /\ w.arkTxId <= txs'
    <3> TAKE w \in vtxos'
    <3>1. CASE w \in vtxos
      BY <3>1
    <3>2. CASE \E v \in I : w = f[v]
      BY <1>1, <1>2, <3>2, SMTT(30) DEF IsSpendable
    <3> QED
      BY <1>0, <3>1, <3>2
  <2>2. \A u \in boarding' : u.settledBy <= txs' \/ u \in boarding
    BY <1>0
  <2>3. txs' \in Nat /\ txs <= txs'
    BY <1>0 DEF TypeOK
  <2> QED
    BY <1>0, <2>1, <2>2, <2>3, SpentOnceMoves
<1> SUFFICES ASSUME ~unusual'
             PROVE  HistoryInv'
  BY <1>4 DEF HistoryInv
<1>5. VtxosMove(I, f, N, NB, NP)
  <2>1. \A v \in I : SameCoin(f[v], v)
    BY <1>0, <1>2 DEF SameCoin, IsLeaf
  <2> HIDE DEF f
  <2> QED
    BY <1>0, <1>2, <2>1 DEF VtxosMove
<1>6. /\ Apart(NB, NP, NL) /\ (\A n \in N : MadeBy(n, NB, NP, NL)) /\ (\A m, n \in N : m = n)
      /\ \A t \in TxIds : {u \in boarding' : u.settledBy = t} = {u \in boarding : u.settledBy = t}
      /\ BoardingBatches(boarding') = BoardingBatches(boarding)
      /\ \A u \in boarding' : u.settledBy \in NB \cup {0} \/ u \in boarding
      /\ batch' \in Batches' \cup {0}
  BY <1>0, <1>2 DEF Apart
<1>7. BoardingBatches(boarding) \subseteq TxIds
  BY <1>0, OffchainAssumption DEF TypeOK, UtxoType, SpentBy, TxIds, BoardingBatches
<1> HIDE DEF NB, NP, NL, I, f, N
<1> QED
  BY <1>0, <1>3, <1>4, <1>5, <1>6, <1>7, HistoryMoves

\* A payment to the boarding address is a receipt of its own.
LEMMA BoardTold ==
    ASSUME IInv, HistoryInv, Board
    PROVE  HistoryInv'
<1>0. TypeOK /\ CoinsKnown /\ SpentOnce /\ UNCHANGED <<vtxos, unusual>> /\ txs' = txs + 1 /\ batch' = 0
  BY DEF IInv, HistoryInv, Board
<1>1. PICK value \in Incomes :
         boarding' = boarding \cup {[txid |-> txs + 1, value |-> value, settledBy |-> 0]}
  BY DEF Board
<1>2. txs \in Nat /\ txs' \in Nat /\ txs <= txs'
  BY <1>0, OffchainAssumption DEF TypeOK
<1> DEFINE I == {}
           N == {}
           f == [v \in I |-> v]
<1>3. VtxosMove(I, f, N, {}, {})
  BY <1>0 DEF VtxosMove
<1>4. Apart({}, {}, {})
  BY DEF Apart
<1>5. \A u \in boarding' : u.settledBy = 0 \/ u \in boarding
  BY <1>1
<1>6. SpentOnce'
  <2>1. \A w \in vtxos' : \/ \E v \in vtxos : w.settledBy = v.settledBy /\ w.arkTxId = v.arkTxId
                          \/ /\ 0 \in {w.settledBy, w.arkTxId}
                             /\ w.settledBy <= txs' /\ w.arkTxId <= txs'
    BY <1>0
  <2>2. \A u \in boarding' : u.settledBy <= txs' \/ u \in boarding
    BY <1>2, <1>5
  <2> QED
    BY <1>0, <1>2, <2>1, <2>2, SpentOnceMoves
<1>7. /\ \A t \in TxIds : {u \in boarding' : u.settledBy = t} = {u \in boarding : u.settledBy = t}
      /\ BoardingBatches(boarding') = BoardingBatches(boarding)
  <2>1. \A t \in TxIds : t # 0
    BY OffchainAssumption DEF TxIds
  <2> QED
    BY <1>1, <1>5, <2>1 DEF BoardingBatches
<1>8. BoardingBatches(boarding) \subseteq TxIds
  BY <1>0, OffchainAssumption DEF TypeOK, UtxoType, SpentBy, TxIds, BoardingBatches
<1>9. unusual' \in BOOLEAN /\ (~unusual' => ~unusual)
  BY <1>0 DEF TypeOK
<1> DEFINE NB == {}
           NP == {}
           NL == {}
<1>10. /\ VtxosMove(I, f, N, NB, NP) /\ Apart(NB, NP, NL)
       /\ ~unusual' => \A n \in N : MadeBy(n, NB, NP, NL)
       /\ ~unusual' => \A m, n \in N : m = n
       /\ \A u \in boarding' : u.settledBy \in NB \cup {0} \/ u \in boarding
       /\ batch' \in Batches' \cup {0}
  BY <1>0, <1>3, <1>4, <1>5
<1> HIDE DEF NB, NP, NL, I, f, N
<1> QED
  BY <1>0, <1>6, <1>7, <1>8, <1>9, <1>10, HistoryMoves

\* A batch: its leaf is the wallet's new vtxo, and what it took of boarding
\* utxos and vtxos came back.
LEMMA BatchTold ==
    ASSUME IInv, HistoryInv, NEW c \in Call, BatchSettles(c)
    PROVE  HistoryInv'
<1> DEFINE I == call[c].inputs
           U == call[c].utxos
           o == call[c].outputs
<1>1. PICK k \in Commitments : \E expiry \in Expiry(k) :
         /\ Leaf(k) <= MaxTx /\ txs' = Leaf(k) /\ batch' = k
         /\ vtxos' = (vtxos \ I) \cup SettledBy(I, k)
                   \cup (IF o.vtxo = 0 THEN {}
                         ELSE {Vtxo(Leaf(k), 1, o.vtxo, "settled", {k}, expiry)})
         /\ boarding' = (boarding \ U) \cup SettledBy(U, k)
                   \cup (IF o.utxo = 0 THEN {}
                         ELSE {[txid |-> k, value |-> o.utxo, settledBy |-> 0]})
         /\ unusual' = (unusual \/ o.utxo # 0 \/ k = batch)
  BY DEF BatchSettles
<1>2. PICK expiry \in Expiry(k) :
         vtxos' = (vtxos \ I) \cup SettledBy(I, k)
                   \cup (IF o.vtxo = 0 THEN {}
                         ELSE {Vtxo(Leaf(k), 1, o.vtxo, "settled", {k}, expiry)})
  BY <1>1
<1> DEFINE leaf == Leaf(k)
           f == [v \in I |-> [v EXCEPT !.settledBy = k]]
           g == [u \in U |-> [u EXCEPT !.settledBy = k]]
           M == IF o.utxo = 0 THEN {} ELSE {[txid |-> k, value |-> o.utxo, settledBy |-> 0]}
           n == Vtxo(leaf, 1, o.vtxo, "settled", {k}, expiry)
           N == IF o.vtxo = 0 THEN {} ELSE {n}
<1>3. /\ TypeOK /\ CoinsKnown /\ SpentOnce
      /\ I \subseteq {v \in vtxos : IsSpendable(v)} /\ U \subseteq boarding
      /\ \A u \in U : u.settledBy = 0
      /\ Value(I) + Value(U) = o.out + o.vtxo + o.utxo /\ (U = {} \/ o.out = 0)
      /\ IsFiniteSet(I) /\ IsFiniteSet(U) /\ I \cup U # {}
      /\ unusual' = (unusual \/ o.utxo # 0 \/ k = batch) /\ txs' = leaf /\ batch' = k
  BY <1>1 DEF IInv, HistoryInv, BatchSettles, Free, CallsBalance
<1>4. /\ txs \in Nat /\ txs' \in Nat /\ txs <= txs' /\ k \in TxIds /\ k \in Nat /\ k # 0
      /\ leaf \in Nat /\ ~(leaf <= txs) /\ k < leaf /\ k # leaf /\ k <= txs'
      /\ ~(k <= txs) \/ k = batch
  <2>1. /\ k \in TxIds /\ leaf \in TxIds /\ txs \in Nat /\ k < leaf /\ k # 0 /\ leaf > txs
        /\ k > txs \/ k = batch
    BY <1>3, <1>1, LeafIs
  <2>2. k \in Nat /\ leaf \in Nat
    BY <2>1 DEF TxIds
  <2> HIDE DEF leaf
  <2> QED
    BY <1>3, <2>1, <2>2
<1>5. o.out \in Nat /\ o.vtxo \in Nat /\ o.utxo \in Nat
  BY <1>3 DEF TypeOK, CallType, Outputs
<1>6. /\ n.txid = leaf /\ n.state = "settled" /\ n.commitments = {k} /\ n.value = o.vtxo
      /\ n.settledBy = 0 /\ n.arkTxId = 0
  BY DEF Vtxo
<1>7. /\ vtxos' = (vtxos \ I) \cup {f[v] : v \in I} \cup N
      /\ boarding' = (boarding \ U) \cup {g[u] : u \in U} \cup M
  BY <1>2, <1>1, ZenonT(60) DEF SettledBy
<1>8. /\ \A v \in I : SameCoin(f[v], v) /\ f[v].settledBy = k /\ f[v].arkTxId = 0
      /\ \A v, w \in I : f[v] = f[w] => v = w
  <2>1. I \subseteq VtxoType /\ \A v \in I : v.settledBy = 0 /\ v.arkTxId = 0
    BY <1>3 DEF TypeOK, IsSpendable
  <2>2. \A v \in I : f[v] = [v EXCEPT !.settledBy = k]
    OBVIOUS
  <2>3. \A v \in I : /\ f[v].txid = v.txid /\ f[v].vout = v.vout /\ f[v].value = v.value
                     /\ f[v].expiry = v.expiry /\ f[v].state = v.state
                     /\ f[v].commitments = v.commitments
                     /\ f[v].settledBy = k /\ f[v].arkTxId = 0
    <3> HIDE DEF f
    <3> QED
      BY <2>1, <2>2, ZenonT(60) DEF VtxoType
  <2>4. \A v, w \in I : f[v] = f[w] => v = w
    <3> HIDE DEF f
    <3>1. \A v, w \in I : f[v] = f[w] => v.txid = w.txid /\ v.vout = w.vout
      BY <2>3
    <3>2. \A v, w \in vtxos : SameOutpoint(v, w) => v = w
      BY <1>3 DEF TypeOK
    <3> QED
      BY <1>3, <3>1, <3>2 DEF SameOutpoint
  <2> QED
    BY <2>3, <2>4 DEF SameCoin, IsLeaf
<1>9. /\ \A u \in U : g[u].txid = u.txid /\ g[u].value = u.value /\ g[u].settledBy = k
      /\ \A u, w \in U : g[u] = g[w] => u = w
  <2>1. U \subseteq UtxoType /\ \A u \in U : u.settledBy = 0
    BY <1>3 DEF TypeOK
  <2>2. \A u \in U : g[u] = [u EXCEPT !.settledBy = k]
    OBVIOUS
  <2>3. \A u \in U : g[u].txid = u.txid /\ g[u].value = u.value /\ g[u].settledBy = k
    <3> HIDE DEF g
    <3> QED
      BY <2>1, <2>2 DEF UtxoType
  <2>4. \A u, w \in U : g[u] = g[w] => u = w
    <3> HIDE DEF g
    <3>1. \A u, w \in U : g[u] = g[w] => u.txid = w.txid /\ u.value = w.value /\ u.settledBy = w.settledBy
      BY <2>1, <2>3
    <3>2. \A u \in U : u = [txid |-> u.txid, value |-> u.value, settledBy |-> u.settledBy]
      BY <2>1 DEF UtxoType
    <3> QED
      BY <3>1, <3>2
  <2> QED
    BY <2>3, <2>4
<1> HIDE DEF f, g, n, leaf
<1>10. VtxosMove(I, f, N, {k}, {})
  BY <1>3, <1>7, <1>8 DEF VtxosMove
<1>11. \A m \in N : MadeBy(m, {k}, {}, {leaf})
  BY <1>4, <1>6 DEF MadeBy, IsLeaf
<1>12. \A u \in boarding' : u.settledBy \in {0, k} \/ u \in boarding
  BY <1>7, <1>9
<1>13. SpentOnce'
  <2>1. \A w \in vtxos' : \/ \E v \in vtxos : w.settledBy = v.settledBy /\ w.arkTxId = v.arkTxId
                          \/ /\ 0 \in {w.settledBy, w.arkTxId}
                             /\ w.settledBy <= txs' /\ w.arkTxId <= txs'
    <3> TAKE w \in vtxos'
    <3>1. CASE w \in N
      BY <1>4, <1>6, <3>1
    <3>2. CASE w \in vtxos
      BY <3>2
    <3>3. CASE \E v \in I : w = f[v]
      BY <1>4, <1>8, <3>3
    <3> QED
      BY <1>7, <3>1, <3>2, <3>3
  <2>2. \A u \in boarding' : u.settledBy <= txs' \/ u \in boarding
    BY <1>4, <1>12
  <2> QED
    BY <1>3, <1>4, <2>1, <2>2, SpentOnceMoves
<1> SUFFICES ASSUME ~unusual'
             PROVE  OriginsTold' /\ BoardingComesBack'
  BY <1>13 DEF HistoryInv
<1>14. ~unusual /\ o.utxo = 0 /\ M = {} /\ ~(k <= txs)
  BY <1>3, <1>4 DEF TypeOK
<1>15. Apart({k}, {}, {leaf})
  BY <1>4, <1>14 DEF Apart
<1>16. OriginsTold /\ BoardingComesBack
  BY <1>14 DEF HistoryInv
<1> DEFINE NB == {k}
           NP == {}
           NL == {leaf}
<1>17. /\ VtxosMove(I, f, N, NB, NP) /\ Apart(NB, NP, NL)
       /\ \A m \in N : MadeBy(m, NB, NP, NL)
       /\ \A u \in boarding' : u.settledBy \in NB \cup {0} \/ u \in boarding
       /\ \A l, m \in N : l = m
  BY <1>10, <1>15, <1>11, <1>12
<1>18. batch' \in Batches' \cup {0}
  <2>1. Batches' = {Origin(v) : v \in {w \in vtxos' : IsLeaf(w)}}
                     \cup ({v.settledBy : v \in vtxos' \cup boarding'} \ {0})
    BY DEF Batches, Origin, IsLeaf
  <2>2. \E v \in vtxos' \cup boarding' : v.settledBy = k
    <3>1. CASE I # {}
      BY <1>7, <1>8, <3>1
    <3>2. CASE U # {}
      BY <1>7, <1>9, <3>2
    <3> QED
      BY <1>3, <3>1, <3>2
  <2> QED
    BY <1>3, <1>4, <2>1, <2>2
<1>19. OriginsTold'
  <2> HIDE DEF NB, NP, NL, I, N
  <2> QED
    BY <1>3, <1>16, <1>17, <1>18, OriginsMove
<1>20. boarding' = (boarding \ U) \cup {g[u] : u \in U}
  BY <1>7, <1>14
<1>21. ASSUME NEW b \in BoardingBatches(boarding)
       PROVE  ComesBack(vtxos', boarding', b)
  <2>1. b # k /\ b # 0
    <3>1. b \in Batches /\ b # 0
      BY DEF BoardingBatches, Batches
    <3>2. b <= txs
      BY <1>3, <1>16, <3>1, Before
    <3> QED
      BY <1>4, <1>14, <3>1, <3>2
  <2>2. {u \in boarding' : u.settledBy = b} = {u \in boarding : u.settledBy = b}
    BY <1>3, <1>9, <1>20, <2>1
  <2>3. ComesBack(vtxos, boarding, b)
    BY <1>16, ComesBackEach
  <2> HIDE DEF NB, NP, NL, I, N
  <2> QED
    BY <1>3, <1>16, <1>17, <1>19, <2>2, <2>3, OldBatch
<1>22. ASSUME U # {}
       PROVE  ComesBack(vtxos', boarding', k)
  <2>1. {v \in vtxos' : Origin(v) = k} = N
    <3>1. \A m \in N : Origin(m) = k
      BY <1>6 DEF Origin, IsLeaf
    <3>2. \A v \in vtxos : Origin(v) # k
      BY <1>3, <1>4, <1>14, <1>16, Before
    <3>3. \A w \in vtxos' : w \in N \/ \E v \in vtxos : Origin(w) = Origin(v)
      <4> HIDE DEF I, N
      <4> QED
        BY <1>10, CoinsBefore
    <3>4. N \subseteq vtxos'
      BY <1>7
    <3> HIDE DEF N
    <3> QED
      BY <3>1, <3>2, <3>3, <3>4
  <2>2. {v \in vtxos' : v.settledBy = k} = {f[v] : v \in I}
    <3>1. \A v \in vtxos : v.settledBy # k
      BY <1>3, <1>4, <1>14 DEF SpentOnce
    <3>2. \A m \in N : m.settledBy # k
      BY <1>4, <1>6
    <3> HIDE DEF N
    <3> QED
      BY <1>7, <1>8, <3>1, <3>2
  <2>3. {u \in boarding' : u.settledBy = k} = {g[u] : u \in U}
    <3>1. \A u \in boarding : u.settledBy # k
      BY <1>3, <1>4, <1>14 DEF SpentOnce
    <3> QED
      BY <1>9, <1>20, <3>1
  <2>4. Value(N) = o.vtxo
    <3>1. CASE o.vtxo = 0
      BY <3>1, ValueEmpty
    <3>2. CASE o.vtxo # 0
      <4>1. Value({n}) = n.value
        BY <1>5, <1>6, ValueOne
      <4> QED
        BY <1>6, <3>2, <4>1
    <3> QED
      BY <3>1, <3>2
  <2>5. IsCoins(I) /\ IsCoins(U)
    <3>1. I \in SUBSET vtxos /\ U \in SUBSET boarding
      BY <1>3
    <3> QED
      BY <1>3, <3>1, WalletCoins, CoinsSubset
  <2>6. Value({f[v] : v \in I}) = Value(I)
    <3>1. \A v \in I : f[v].value = v.value
      BY <1>8 DEF SameCoin
    <3>2. \A v, w \in I : f[v] = f[w] => v = w
      BY <1>8
    <3> HIDE DEF I
    <3> QED
      BY <2>5, <3>1, <3>2, ValueMarked
  <2>7. Value({g[u] : u \in U}) = Value(U)
    <3>1. \A u \in U : g[u].value = u.value
      BY <1>9
    <3>2. \A u, w \in U : g[u] = g[w] => u = w
      BY <1>9
    <3> HIDE DEF U
    <3> QED
      BY <2>5, <3>1, <3>2, ValueMarked
  <2>8. o.vtxo = Value(I) + Value(U)
    <3>1. o.out = 0 /\ o.utxo = 0
      BY <1>3, <1>14, <1>22
    <3>2. Value(I) \in Nat /\ Value(U) \in Nat
      BY <2>5, ValueNat
    <3> QED
      BY <1>3, <1>5, <3>1, <3>2
  <2> QED
    BY <2>1, <2>2, <2>3, <2>4, <2>6, <2>7, <2>8 DEF ComesBack
<1>23. \A b \in BoardingBatches(boarding') : b \in BoardingBatches(boarding) \/ (b = k /\ U # {})
  BY <1>9, <1>20 DEF BoardingBatches
<1>24. BoardingComesBack'
  BY <1>21, <1>22, <1>23, ComesBackEach
<1> QED
  BY <1>19, <1>24

\* Initially there is nothing to tell.
LEMMA InitHistory ==
    ASSUME Init
    PROVE  HistoryInv
BY DEF Init, HistoryInv, SpentOnce, OriginsTold, BoardingComesBack, BoardingBatches, Batches,
       Payments, Leaves, Spenders

\* Every step keeps what the history relies on.
LEMMA HistorySteps ==
    ASSUME IInv, HistoryInv, [Next]_vars
    PROVE  HistoryInv'
<1>1. CASE UNCHANGED vars
  BY <1>1, HistoryStays DEF vars
<1>2. CASE Receive
  BY <1>2, ReceiveTold
<1>3. CASE Board
  BY <1>3, BoardTold
<1>4. ASSUME NEW c \in Call,
             \/ SendBitcoin(c) \/ Submit(c) \/ SettleAll(c) \/ Onboard(c) \/ Offboard(c)
             \/ Refused(c) \/ Interrupted(c)
      PROVE  HistoryInv'
  <2>1. UNCHANGED <<vtxos, boarding, txs, batch, unusual>>
    BY <1>4 DEF SendBitcoin, Submit, SettleAll, Onboard, Offboard, Refused, Interrupted
  <2> QED
    BY <2>1, HistoryStays
<1>5. ASSUME NEW c \in Call, Finalize(c)
      PROVE  HistoryInv'
  BY <1>5, FinalizeTold
<1>6. ASSUME NEW c \in Call, BatchSettles(c)
      PROVE  HistoryInv'
  BY <1>6, BatchTold
<1>7. ASSUME NEW k \in TxIds, Sweep(k)
      PROVE  HistoryInv'
  BY <1>7, SweepTold
<1> QED
  BY <1>1, <1>2, <1>3, <1>4, <1>5, <1>6, <1>7 DEF Next

\* Batches, payments and leaves stay apart, one that spent coins of the wallet
\* made at most one of its vtxos, and a batch gave back what it took of boarding
\* utxos: whoever else a batch paid and whatever the server swept, as long as
\* nothing unusual happened.
THEOREM HistoryIsTold == Spec => []HistoryInv
<1>1. Init => HistoryInv
  BY InitHistory
<1>2. IInv /\ HistoryInv /\ [Next]_vars => HistoryInv'
  BY HistorySteps
<1>3. Spec => []IInv
  BY WalletInvariant
<1>4. Init /\ [][Next]_vars /\ []IInv => []HistoryInv
  BY <1>1, <1>2, PTL
<1> QED
  BY <1>3, <1>4 DEF Spec

\* What getTransactionHistory infers adds up to the wallet's balance: for any
\* coins, in whatever order the indexer lists them, change and refreshed coins
\* counting for neither receipts nor payments.
THEOREM HistoryAddsUp == Spec => []HistoryBalances
<1>1. IInv /\ HistoryInv => HistoryBalances
  BY HistoryOfCoins DEF IInv
<1> QED
  BY <1>1, HistoryIsTold, WalletInvariant, PTL
=============================================================================
