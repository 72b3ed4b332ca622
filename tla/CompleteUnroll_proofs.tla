------------------------ MODULE CompleteUnroll_proofs ------------------------
(***************************************************************************)
(* Theorems about CompleteUnroll, for any tap tree, vtxos, fee rates and   *)
(* chain: the timelock of an exit path is never spent early, and the       *)
(* transaction pays out all the vtxos found but its fee.                   *)
(***************************************************************************)
EXTENDS CompleteUnroll, Algorithms_proofs

-----------------------------------------------------------------------------
\* What the call has read stays true on a longer chain: a vtxo confirmed where
\* it was, at the time its block has, is as available at the tip as before.
LEMMA AvailableStays ==
    ASSUME StateOK, tip' = tip, NEW v \in Vtxo, confirmedAt[v] > 0,
           confirmedAt'[v] = confirmedAt[v],
           \A i \in 1 .. Height : blockTime'[i] = blockTime[i],
           NEW e \in AvailablePaths(v)
    PROVE  e \in AvailablePaths(v)'
  <1>1. confirmedAt[v] \in 1 .. Height
    BY DEF StateOK, Height
  <1>2. blockTime'[confirmedAt'[v]] = blockTime[confirmedAt[v]]
    BY <1>1
  <1> QED
    BY <1>2 DEF AvailablePaths

\* The chain starts with its inputs unspent and before any call.
LEMMA InitInv == Init => ChainInv /\ InputsInv /\ StartInv
  BY DEF Init, ChainInv, InputsInv, StartInv, Height

\* The steps of the call leave the blocks and the confirmations alone.
CallStep ==
    \/ ReadTip \/ ListVtxos \/ Broadcast \/ RequestThrows
    \/ \E v \in Vtxo : CheckVtxo(v) \/ CheckThrows(v) \/ MarkUnrolled(v) \/ SpendElsewhere(v)
    \/ \E rate \in FeeRates : Pay(rate) \/ PayThrows(rate)

\* A step of completeUnroll leaves the chain as it is.
LEMMA CallKeepsChain ==
    ASSUME CallStep
    PROVE  UNCHANGED <<blockTime, medianTime, confirmedAt>>
  BY DEF CallStep, ReadTip, ListVtxos, Broadcast, RequestThrows, CheckVtxo, CheckThrows,
     MarkUnrolled, SpendElsewhere, Pay, PayThrows, chainVars

\* A new block is later than the median time it extends.
LEMMA MineInv ==
    ASSUME StateOK, ChainInv, InputsInv, MineBlock
    PROVE  ChainInv' /\ InputsInv'
  <1>1. /\ Height \in Nat /\ Height >= 1 /\ Height' = Height + 1
        /\ blockTime \in Seq(Nat) /\ medianTime \in Seq(Nat) /\ Len(medianTime) = Height
    BY DEF StateOK, MineBlock, Height
  <1>2. PICK median \in medianTime[Height] .. (medianTime[Height] + MaxStep),
             time \in (medianTime[Height] + 1) .. (medianTime[Height] + MaxStep + 1) :
          medianTime' = Append(medianTime, median) /\ blockTime' = Append(blockTime, time)
    BY DEF MineBlock
  <1>3. \A i \in 1 .. Height : medianTime[i] \in Nat /\ blockTime[i] \in Nat
    BY <1>1, SMTT(30) DEF Height
  <1>4. /\ \A i \in 1 .. Height : medianTime'[i] = medianTime[i] /\ blockTime'[i] = blockTime[i]
        /\ medianTime'[Height + 1] = median /\ blockTime'[Height + 1] = time
    BY <1>1, <1>2 DEF Height
  <1>5. MaxStep \in Nat /\ medianTime[Height] \in Nat
    BY <1>1, <1>3, ExitAssumption
  <1>6. median \in Nat /\ median >= medianTime[Height] /\ time > medianTime[Height]
    BY <1>2, <1>5
  <1>7. \A i, j \in 1 .. Height' : i <= j => medianTime'[i] <= medianTime'[j]
    <2> SUFFICES ASSUME NEW i \in 1 .. Height', NEW j \in 1 .. Height', i <= j
                 PROVE  medianTime'[i] <= medianTime'[j]
      OBVIOUS
    <2>1. CASE j <= Height
      BY <1>1, <1>4, <2>1 DEF ChainInv
    <2>2. CASE i <= Height /\ j = Height + 1
      <3>1. medianTime[i] <= medianTime[Height]
        BY <1>1, <2>2 DEF ChainInv
      <3> QED
        BY <1>1, <1>3, <1>4, <1>5, <1>6, <2>2, <3>1, SMTT(30)
    <2>3. CASE i = Height + 1 /\ j = Height + 1
      BY <1>4, <1>6, <2>3
    <2> QED
      BY <1>1, <2>1, <2>2, <2>3
  <1>8. \A i \in 2 .. Height' : blockTime'[i] > medianTime'[i - 1]
    <2> SUFFICES ASSUME NEW i \in 2 .. Height' PROVE blockTime'[i] > medianTime'[i - 1]
      OBVIOUS
    <2>1. CASE i <= Height
      BY <1>1, <1>4, <2>1 DEF ChainInv
    <2>2. CASE i = Height + 1
      BY <1>1, <1>4, <1>6, <2>2
    <2> QED
      BY <1>1, <2>1, <2>2
  <1>9. \A v \in Vtxo : /\ confirmedAt'[v] # 1
                        /\ confirmedAt[v] > 0 => confirmedAt'[v] = confirmedAt[v]
    BY <1>1 DEF MineBlock, ChainInv, StateOK
  <1>10. InputsInv'
    <2> SUFFICES ASSUME pc \in {"listing", "checking", "paying", "broadcasting"}
                 PROVE  /\ tip.height \in 1 .. Height' /\ tip.time = medianTime'[tip.height]
                        /\ \A in \in inputs : /\ confirmedAt'[in.vtxo] > 0
                                             /\ in.exit \in AvailablePaths(in.vtxo)'
      BY DEF InputsInv, MineBlock, callVars
    <2>1. tip.height \in 1 .. Height /\ tip.time = medianTime[tip.height] /\ tip' = tip
      BY DEF InputsInv, MineBlock, callVars
    <2>2. ASSUME NEW in \in inputs
          PROVE  confirmedAt'[in.vtxo] > 0 /\ in.exit \in AvailablePaths(in.vtxo)'
      <3>1. in.vtxo \in Vtxo /\ confirmedAt[in.vtxo] > 0 /\ in.exit \in AvailablePaths(in.vtxo)
        BY <2>2 DEF InputsInv, StateOK
      <3> QED
        BY <1>4, <1>9, <2>1, <3>1, AvailableStays
    <2> QED
      BY <1>1, <1>4, <2>1, <2>2
  <1> QED
    BY <1>7, <1>8, <1>9, <1>10 DEF ChainInv

\* The call's own steps: the tip is a block of the chain, and a vtxo becomes an
\* input with the path that availableExitPath found.
LEMMA CallInv ==
    ASSUME StateOK, ChainInv, InputsInv, StartInv, CallStep
    PROVE  ChainInv' /\ InputsInv' /\ StartInv'
  <1>1. UNCHANGED <<blockTime, medianTime, confirmedAt>>
    BY CallKeepsChain
  <1>2. ChainInv'
    BY <1>1 DEF ChainInv, Height
  <1>3. StartInv'
    BY DEF StartInv, CallStep, ReadTip, ListVtxos, Broadcast, RequestThrows, CheckVtxo,
       CheckThrows, MarkUnrolled, SpendElsewhere, Pay, PayThrows, callVars
  <1>4. InputsInv'
    <2>1. CASE ReadTip
      BY <1>1, <2>1 DEF ReadTip, InputsInv, StartInv, StateOK, Height
    <2>2. CASE \E v \in Vtxo : CheckVtxo(v)
      <3> PICK v \in Vtxo : CheckVtxo(v)
        BY <2>2
      <3>1. PICK i \in ExitPaths : FirstAvailable(v, i) /\ inputs' = inputs \cup {[vtxo |-> v, exit |-> i]}
        BY DEF CheckVtxo
      <3>2. tip' = tip /\ confirmedAt[v] > 0 /\ pc = "checking"
        BY DEF CheckVtxo
      <3>3. \A x, e : e \in AvailablePaths(x) => e \in AvailablePaths(x)'
        BY <1>1, <3>2 DEF AvailablePaths
      <3> QED
        BY <1>1, <3>1, <3>2, <3>3 DEF InputsInv, FirstAvailable, Height
    <2>3. CASE /\ ~ReadTip /\ ~\E v \in Vtxo : CheckVtxo(v)
      <3>1. /\ tip' = tip /\ inputs' = inputs
            /\ pc' \in {"listing", "checking", "paying", "broadcasting"} =>
                pc \in {"listing", "checking", "paying", "broadcasting"}
        BY <2>3 DEF CallStep, ListVtxos, Broadcast, RequestThrows, CheckThrows, MarkUnrolled,
           SpendElsewhere, Pay, PayThrows, callVars
      <3>2. \A x, e : e \in AvailablePaths(x) => e \in AvailablePaths(x)'
        BY <1>1, <3>1 DEF AvailablePaths
      <3> QED
        BY <1>1, <3>1, <3>2 DEF InputsInv, Height
    <2> QED
      BY <2>1, <2>2, <2>3
  <1> QED
    BY <1>2, <1>3, <1>4

\* The variables but the amounts stay in their types.
LEMMA StateType ==
    ASSUME StateOK, [Next]_vars
    PROVE  StateOK'
  <1>1. CASE MineBlock
    <2>1. /\ Height \in Nat /\ Height >= 1 /\ Height < MaxHeight /\ MaxHeight \in Nat
          /\ blockTime \in Seq(Nat) /\ medianTime \in Seq(Nat) /\ Len(medianTime) = Height
      BY <1>1, ExitAssumption DEF StateOK, MineBlock, Height
    <2>2. medianTime[Height] \in Nat /\ MaxStep \in Nat
      BY <2>1, ExitAssumption
    <2>3. PICK median \in medianTime[Height] .. (medianTime[Height] + MaxStep),
               time \in (medianTime[Height] + 1) .. (medianTime[Height] + MaxStep + 1) :
            medianTime' = Append(medianTime, median) /\ blockTime' = Append(blockTime, time)
      BY <1>1 DEF MineBlock
    <2>4. /\ blockTime' \in Seq(Nat) /\ medianTime' \in Seq(Nat)
          /\ Height' = Height + 1 /\ Len(medianTime') = Height + 1
      <3>1. median \in Nat /\ time \in Nat
        BY <2>2
      <3>2. Append(blockTime, time) \in Seq(Nat) /\ Append(medianTime, median) \in Seq(Nat)
        BY <2>1, <3>1, AppendProperties
      <3>3. /\ Len(Append(blockTime, time)) = Len(blockTime) + 1
            /\ Len(Append(medianTime, median)) = Len(medianTime) + 1
        BY <2>1, <3>1, AppendProperties
      <3> QED
        BY <2>1, <2>3, <3>2, <3>3 DEF Height
    <2>5. confirmedAt' \in [Vtxo -> 0 .. Height']
      <3>1. PICK S \in SUBSET {v \in Vtxo : confirmedAt[v] = 0} :
              confirmedAt' = [v \in Vtxo |-> IF v \in S THEN Height + 1 ELSE confirmedAt[v]]
        BY <1>1 DEF MineBlock
      <3>2. \A v \in Vtxo : confirmedAt[v] \in 0 .. Height
        BY DEF StateOK
      <3> QED
        BY <2>1, <2>4, <3>1, <3>2
    <2> QED
      BY <1>1, <2>1, <2>4, <2>5, SMTT(30) DEF MineBlock, StateOK, callVars
  <1>2. CASE CallStep
    <2>1. blockTime' = blockTime /\ medianTime' = medianTime /\ confirmedAt' = confirmedAt
      BY <1>2, CallKeepsChain
    <2>2. Height \in Nat /\ medianTime[Height] \in Nat
      BY DEF StateOK, Height
    <2>3. unrolled' \subseteq Vtxo /\ found' \subseteq Vtxo /\ todo' \subseteq found'
          /\ out' \subseteq unrolled'
      BY <1>2 DEF StateOK, CallStep, ReadTip, ListVtxos, Broadcast, RequestThrows, CheckVtxo,
         CheckThrows, MarkUnrolled, SpendElsewhere, Pay, PayThrows, chainVars, callVars
    <2>4. tip' \in [height : Nat, time : Nat]
      BY <1>2, <2>2 DEF StateOK, CallStep, ReadTip, ListVtxos, Broadcast, RequestThrows, CheckVtxo,
         CheckThrows, MarkUnrolled, SpendElsewhere, Pay, PayThrows, chainVars, callVars
    <2>5. inputs' \subseteq [vtxo : Vtxo, exit : ExitPaths]
      BY <1>2 DEF StateOK, CallStep, ReadTip, ListVtxos, Broadcast, RequestThrows, CheckVtxo,
         CheckThrows, MarkUnrolled, SpendElsewhere, Pay, PayThrows, chainVars, callVars
    <2>6. spent' \subseteq Vtxo
      BY <1>2 DEF StateOK, CallStep, ReadTip, ListVtxos, Broadcast, RequestThrows, CheckVtxo,
         CheckThrows, MarkUnrolled, SpendElsewhere, Pay, PayThrows, chainVars, callVars
    <2>7. failures' \in 0 .. MaxFailures
      BY <1>2, ExitAssumption DEF StateOK, CallStep, ReadTip, ListVtxos, Broadcast, RequestThrows,
         CheckVtxo, CheckThrows, MarkUnrolled, SpendElsewhere, Pay, PayThrows, callVars
    <2>8. pc' \in {"start", "listing", "checking", "paying", "broadcasting", "returned", "threw"}
      BY <1>2 DEF StateOK, CallStep, ReadTip, ListVtxos, Broadcast, RequestThrows, CheckVtxo,
         CheckThrows, MarkUnrolled, SpendElsewhere, Pay, PayThrows, callVars
    <2> QED
      BY <2>1, <2>3, <2>4, <2>5, <2>6, <2>7, <2>8 DEF StateOK, Height
  <1>3. CASE UNCHANGED vars
    BY <1>3 DEF StateOK, Height, vars, chainVars, callVars
  <1> QED
    BY <1>1, <1>2, <1>3 DEF Next, CallStep

-----------------------------------------------------------------------------
\* Induction over the naturals, with a set X for the predicate.
LEMMA NatSetInduction ==
    ASSUME NEW X, 0 \in X, \A n \in Nat : n \in X => n + 1 \in X
    PROVE  Nat \subseteq X
  <1> DEFINE Bad == {n \in Nat : n \notin X}
  <1>1. Bad = {}
    <2> SUFFICES ASSUME Bad # {} PROVE FALSE
      OBVIOUS
    <2>0. Bad \subseteq Nat
      OBVIOUS
    <2>1. PICK n \in Bad : \A m \in Bad : ~(<<m, n>> \in OpToRel(<, Nat))
      <3> HIDE DEF Bad
      <3> QED BY <2>0, WFMin, NatLessThanWellFounded
    <2>2. \A m \in Bad : ~(m < n)
      BY <2>1 DEF OpToRel
    <2>3. n \in Nat /\ n \notin X
      BY <2>1
    <2>4. n - 1 \in Nat /\ n - 1 < n /\ (n - 1) + 1 = n
      <3>1. n # 0
        BY <2>3
      <3> QED
        BY <2>3, <3>1
    <2>5. n - 1 \in X
      BY <2>2, <2>4
    <2> QED
      BY <2>3, <2>4, <2>5
  <1> QED
    BY <1>1

\* The estimator after k inputs of completeUnroll's loop.
IsWeights(w, n) ==
    w = [k \in 0 .. n |-> IF k = 0 THEN Create ELSE AddTapscriptInput(w[k - 1], 64, 40, 65)]

Weights(n) == CHOOSE w : IsWeights(w, n)

\* The loop that adds the inputs comes to its end, for any number of them.
LEMMA WeightsExist == \A n \in Nat : IsWeights(Weights(n), n)
  <1> DEFINE X == {n \in Nat : \E w : IsWeights(w, n)}
  <1>1. 0 \in X
    <2> DEFINE w == [k \in 0 .. 0 |-> Create]
    <2>1. IsWeights(w, 0)
      BY DEF IsWeights
    <2> QED
      BY <2>1
  <1>2. ASSUME NEW n \in Nat, n \in X PROVE n + 1 \in X
    <2>1. PICK w : IsWeights(w, n)
      BY <1>2
    <2> DEFINE u == [k \in 0 .. (n + 1) |->
                       IF k <= n THEN w[k] ELSE AddTapscriptInput(w[n], 64, 40, 65)]
    <2>2. \A k \in 0 .. (n + 1) :
            u[k] = IF k = 0 THEN Create ELSE AddTapscriptInput(u[k - 1], 64, 40, 65)
      <3> SUFFICES ASSUME NEW k \in 0 .. (n + 1)
                   PROVE  u[k] = IF k = 0 THEN Create ELSE AddTapscriptInput(u[k - 1], 64, 40, 65)
        OBVIOUS
      <3>1. CASE k = 0
        <4>1. w[0] = Create
          BY <2>1 DEF IsWeights
        <4> QED
          BY <3>1, <4>1
      <3>2. CASE k \in 1 .. n
        <4>1. w[k] = AddTapscriptInput(w[k - 1], 64, 40, 65)
          BY <2>1, <3>2 DEF IsWeights
        <4>2. u[k] = w[k] /\ u[k - 1] = w[k - 1]
          BY <3>2
        <4> QED
          BY <3>2, <4>1, <4>2
      <3>3. CASE k = n + 1
        <4>1. u[k] = AddTapscriptInput(w[n], 64, 40, 65) /\ u[n] = w[n] /\ k - 1 = n /\ k # 0
          BY <3>3
        <4> QED
          BY <4>1
      <3> QED
        BY <3>1, <3>2, <3>3
    <2>3. u = [k \in 0 .. (n + 1) |-> u[k]]
      OBVIOUS
    <2> HIDE DEF u
    <2>4. IsWeights(u, n + 1)
      BY <2>2, <2>3 DEF IsWeights
    <2> QED
      BY <2>4
  <1> HIDE DEF X
  <1>3. Nat \subseteq X
    BY <1>1, <1>2, NatSetInduction
  <1> QED
    BY <1>3 DEF X, Weights

\* What the estimator counts.
Estimate == [hasWitness : BOOLEAN, inputCount : Nat, outputCount : Nat,
             inputSize : Nat, inputWitnessSize : Nat, outputSize : Nat]

\* The estimator starts from an estimate.
LEMMA EstimateEmpty == Create \in Estimate
  BY DEF Create, Estimate

\* addTapscriptInput of an estimate is one.
LEMMA EstimateInput ==
    ASSUME NEW e \in Estimate
    PROVE  AddTapscriptInput(e, 64, 40, 65) \in Estimate
  <1>1. \A a, b, c \in Nat : [e EXCEPT !.inputCount = a, !.inputSize = b,
                                        !.inputWitnessSize = c, !.hasWitness = TRUE] \in Estimate
    BY DEF Estimate
  <1>2. /\ e.inputCount + 2 \in Nat /\ e.inputSize + InputSize \in Nat
        /\ e.inputWitnessSize + 64 + 1 + BaseControlBlockSize + 1 + 40 + 1 + 65 \in Nat
    BY DEF Estimate, InputSize, BaseControlBlockSize
  <1> QED
    BY <1>1, <1>2 DEF AddTapscriptInput

\* addP2TROutput of an estimate is one.
LEMMA EstimateOutput ==
    ASSUME NEW e \in Estimate
    PROVE  AddP2TROutput(e) \in Estimate
  <1>1. \A a, b \in Nat : [e EXCEPT !.outputCount = a, !.outputSize = b] \in Estimate
    BY DEF Estimate
  <1>2. e.outputCount + 1 \in Nat /\ e.outputSize + OutputSize + P2TROutputSize \in Nat
    BY DEF Estimate, OutputSize, P2TROutputSize
  <1> QED
    BY <1>1, <1>2 DEF AddP2TROutput

\* However many inputs are added, the weight is an estimate.
LEMMA WeightsType == \A n \in Nat : Weights(n)[n] \in Estimate
  <1> SUFFICES ASSUME NEW n \in Nat PROVE Weights(n)[n] \in Estimate
    OBVIOUS
  <1> DEFINE w == Weights(n)
             X == {k \in Nat : k <= n => w[k] \in Estimate}
  <1>1. \A k \in 0 .. n : w[k] = IF k = 0 THEN Create ELSE AddTapscriptInput(w[k - 1], 64, 40, 65)
    BY WeightsExist DEF IsWeights
  <1> HIDE DEF w
  <1>2. 0 \in X
    <2>1. 0 \in 0 .. n /\ w[0] = Create
      BY <1>1
    <2> QED
      BY <2>1, EstimateEmpty
  <1>3. ASSUME NEW k \in Nat, k \in X PROVE k + 1 \in X
    <2>1. SUFFICES ASSUME k + 1 <= n PROVE w[k + 1] \in Estimate
      OBVIOUS
    <2>2. w[k] \in Estimate /\ w[k + 1] = AddTapscriptInput(w[k], 64, 40, 65)
      BY <1>1, <1>3, <2>1
    <2> QED
      BY <2>2, EstimateInput
  <1>4. Nat \subseteq X
    <2> HIDE DEF X
    <2> QED BY <1>2, <1>3, NatSetInduction
  <1> QED
    BY <1>4 DEF w

\* The fee is a number of sats.
LEMMA FeeNat ==
    ASSUME NEW n \in Nat, NEW rate \in FeeRates
    PROVE  Fee(n, EffectiveRate(rate)) \in Nat
  <1> DEFINE e == AddP2TROutput(Weights(n)[n])
  <1>1. ExitVSize(n) = VSize(e)
    BY DEF ExitVSize, Weights, IsWeights
  <1>2. e \in Estimate
    BY WeightsType, EstimateOutput
  <1> HIDE DEF e
  <1>3. VSize(e) \in Nat
    BY <1>2 DEF VSize, Estimate, CeilDiv, VarIntSize, BaseTxSize, WitnessHeaderSize,
                WitnessScaleFactor
  <1>4. EffectiveRate(rate) \div 10 \in Nat
    BY ExitAssumption DEF EffectiveRate, MinFeeRate
  <1>5. \A a, b \in Nat : a * b \in Nat
    OBVIOUS
  <1> QED
    BY <1>1, <1>3, <1>4, <1>5 DEF Fee

-----------------------------------------------------------------------------
\* The values of some of the vtxos.
LEMMA SumOfVtxos ==
    ASSUME NEW S \in SUBSET Vtxo
    PROVE  SumFunctionOnSet(Amount, S) \in Nat /\ IsFiniteSet(S)
  <1>1. IsFiniteSet(S) /\ \A v \in S : Amount[v] \in Nat
    BY ExitAssumption, FS_Subset
  <1> QED
    BY <1>1, SumNat

\* One turn of the loop adds an input and its amount.
LEMMA TallyCheck ==
    ASSUME StateOK, AmountsOK, TallyInv, NEW v \in Vtxo, CheckVtxo(v)
    PROVE  TallyInv' /\ AmountsOK'
  <1>1. PICK i \in ExitPaths : inputs' = inputs \cup {[vtxo |-> v, exit |-> i]}
    BY DEF CheckVtxo
  <1> DEFINE new == [vtxo |-> v, exit |-> i]
             done == found \ todo
  <1>2. /\ pc = "checking" /\ v \in todo /\ v \in out /\ UNCHANGED <<found, out>>
        /\ todo' = todo \ {v} /\ total' = total + Amount[v] /\ output' = output
        /\ readyAtStart' = readyAtStart /\ pc' = IF todo' = {} THEN "paying" ELSE "checking"
    BY DEF CheckVtxo, chainVars
  <1>3. /\ {in.vtxo : in \in inputs} = done /\ IsFiniteSet(inputs)
        /\ Cardinality(inputs) = Cardinality(done) /\ done \subseteq out
        /\ found # {} /\ total = SumFunctionOnSet(Amount, done)
    BY <1>2 DEF TallyInv
  <1>4. found \ todo' = done \cup {v} /\ v \notin done /\ done \subseteq Vtxo
    BY <1>2 DEF StateOK
  <1>5. IsFiniteSet(done) /\ Amount[v] \in Nat /\ \A x \in done \cup {v} : Amount[x] \in Int
    BY <1>4, SumOfVtxos, ExitAssumption
  <1>6. {in.vtxo : in \in inputs'} = done \cup {v}
    <2>1. {in.vtxo : in \in inputs \cup {new}} = {in.vtxo : in \in inputs} \cup {new.vtxo}
      OBVIOUS
    <2> QED
      BY <1>1, <1>3, <2>1
  <1>7. new \notin inputs
    <2>1. \A in \in inputs : in.vtxo \in done
      BY <1>3
    <2> QED
      BY <1>4, <2>1
  <1>8. Cardinality(inputs') = Cardinality(done \cup {v}) /\ IsFiniteSet(inputs')
    <2>1. /\ IsFiniteSet(inputs \cup {new})
          /\ Cardinality(inputs \cup {new}) = Cardinality(inputs) + 1
      <3> HIDE DEF new
      <3> QED BY <1>3, <1>7, FS_AddElement
    <2>2. Cardinality(done \cup {v}) = Cardinality(done) + 1
      <3> HIDE DEF done
      <3> QED BY <1>4, <1>5, FS_AddElement
    <2> QED
      BY <1>1, <1>3, <2>1, <2>2
  <1>9. total' = SumFunctionOnSet(Amount, done \cup {v}) /\ total' \in Nat
    <2>1. SumFunctionOnSet(Amount, done \cup {v}) = Amount[v] + SumFunctionOnSet(Amount, done)
      <3> HIDE DEF done
      <3> QED BY <1>4, <1>5, SumAdd
    <2>2. total \in Nat
      BY DEF AmountsOK
    <2> QED
      BY <1>2, <1>3, <1>5, <2>1, <2>2
  <1>10. AmountsOK'
    BY <1>2, <1>9 DEF AmountsOK
  <1> HIDE DEF done, new
  <1>11. TallyInv'
    BY <1>2, <1>3, <1>4, <1>6, <1>8, <1>9 DEF TallyInv
  <1> QED
    BY <1>10, <1>11

\* The fee of the rate that was answered is what the output lacks.
LEMMA TallyPay ==
    ASSUME AmountsOK, TallyInv, NEW rate \in FeeRates, Pay(rate)
    PROVE  TallyInv' /\ AmountsOK'
  <1>1. /\ pc = "paying" /\ pc' = "broadcasting" /\ inputs' = inputs /\ todo' = todo
        /\ total' = total /\ UNCHANGED <<found, out>> /\ readyAtStart' = readyAtStart
        /\ Fee(Cardinality(inputs), EffectiveRate(rate)) <= total
        /\ output' = total - Fee(Cardinality(inputs), EffectiveRate(rate))
    BY DEF Pay, chainVars
  <1>2. IsFiniteSet(inputs) /\ Cardinality(inputs) \in Nat
    BY <1>1, FS_CardinalityType DEF TallyInv
  <1>3. Fee(Cardinality(inputs), EffectiveRate(rate)) \in Nat /\ total \in Nat
    BY <1>2, FeeNat DEF AmountsOK
  <1>4. AmountsOK'
    BY <1>1, <1>3 DEF AmountsOK
  <1>5. TallyInv'
    BY <1>1 DEF TallyInv
  <1> QED
    BY <1>4, <1>5

\* No other step touches what was tallied.
LEMMA TallyStep ==
    ASSUME StateOK, AmountsOK, StartInv, TallyInv, [Next]_vars
    PROVE  TallyInv' /\ AmountsOK'
  <1>1. CASE \E v \in Vtxo : CheckVtxo(v)
    BY <1>1, TallyCheck
  <1>2. CASE \E rate \in FeeRates : Pay(rate)
    BY <1>2, TallyPay
  <1>3. CASE ListVtxos
    <2>1. /\ pc = "listing" /\ todo' = found' /\ inputs' = inputs /\ total' = total
          /\ output' = output /\ readyAtStart' = readyAtStart
          /\ pc' \in {"threw", "checking"} /\ (pc' = "checking" => found' # {})
      BY <1>3 DEF ListVtxos, chainVars
    <2>2. inputs = {} /\ total = 0 /\ found' \ todo' = {}
      BY <2>1 DEF StartInv
    <2>3. IsFiniteSet({}) /\ SumFunctionOnSet(Amount, {}) = 0
      BY SumEmpty, FS_EmptySet
    <2>4. TallyInv'
      BY <2>1, <2>2, <2>3 DEF TallyInv
    <2> QED
      BY <2>1, <2>4 DEF AmountsOK
  <1>4. CASE \E v \in Vtxo : MarkUnrolled(v)
    <2>1. unrolled \subseteq unrolled' /\ UNCHANGED callVars
      BY <1>4 DEF MarkUnrolled
    <2> QED
      BY <2>1 DEF TallyInv, AmountsOK, callVars
  <1>5. CASE ReadTip \/ Broadcast \/ RequestThrows \/ (\E v \in Vtxo : CheckThrows(v))
             \/ (\E rate \in FeeRates : PayThrows(rate))
    <2>1. /\ pc' \in {"listing", "returned", "threw"}
          /\ UNCHANGED <<total, output>> /\ readyAtStart' \in {readyAtStart, Ready}
      BY <1>5 DEF ReadTip, Broadcast, RequestThrows, CheckThrows, PayThrows
    <2>2. Ready \in BOOLEAN
      BY DEF Ready
    <2> QED
      BY <2>1, <2>2 DEF TallyInv, AmountsOK
  <1>6. CASE MineBlock \/ (\E v \in Vtxo : SpendElsewhere(v)) \/ UNCHANGED vars
    <2>1. unrolled' = unrolled /\ UNCHANGED callVars
      BY <1>6 DEF MineBlock, SpendElsewhere, vars, chainVars
    <2> QED
      BY <2>1 DEF TallyInv, AmountsOK, callVars
  <1> QED
    BY <1>1, <1>2, <1>3, <1>4, <1>5, <1>6 DEF Next

\* The chain's clocks, the tip that was read and the inputs chosen by it, in
\* every reachable state.
THEOREM Invariance == Spec => []IInv
  <1>1. Init => IInv
    <2> SUFFICES ASSUME Init PROVE StateOK /\ AmountsOK /\ TallyInv
      BY InitInv DEF IInv
    <2>1. MaxHeight \in Nat \ {0} /\ MaxFailures \in Nat
      BY ExitAssumption
    <2>2. StateOK
      BY <2>1 DEF Init, StateOK, Height
    <2>3. AmountsOK
      BY DEF Init, AmountsOK
    <2>4. TallyInv
      <3>1. pc = "start"
        BY DEF Init
      <3> QED
        BY <3>1 DEF TallyInv
    <2> QED
      BY <2>2, <2>3, <2>4
  <1>2. IInv /\ [Next]_vars => IInv'
    <2> SUFFICES ASSUME IInv, [Next]_vars PROVE IInv'
      OBVIOUS
    <2>1. StateOK' /\ AmountsOK' /\ TallyInv'
      BY StateType, TallyStep DEF IInv
    <2>2. CASE MineBlock
      <3>1. StartInv'
        BY <2>2 DEF IInv, StartInv, MineBlock, callVars
      <3> QED
        BY <2>1, <2>2, <3>1, MineInv DEF IInv
    <2>3. CASE CallStep
      BY <2>1, <2>3, CallInv DEF IInv
    <2>4. CASE UNCHANGED vars
      BY <2>1, <2>4 DEF IInv, ChainInv, InputsInv, StartInv, AvailablePaths, Height, vars,
         chainVars, callVars
    <2> QED
      BY <2>2, <2>3, <2>4 DEF Next, CallStep
  <1> QED
    BY <1>1, <1>2, PTL DEF Spec

\* completeUnroll never builds a transaction whose timelocks have not expired by
\* the rules of the chain, whatever it read late or early.
THEOREM NeverEarly == Spec => []ExitsAreMature
  <1>1. IInv => ExitsAreMature
    <2> SUFFICES ASSUME IInv, pc = "broadcasting", NEW in \in inputs
                 PROVE  Mature(Leaves[in.exit], in.vtxo)
      BY DEF ExitsAreMature
    <2> DEFINE v == in.vtxo
               exit == Leaves[in.exit]
    <2>1. v \in Vtxo /\ in.exit \in ExitPaths /\ confirmedAt[v] > 0 /\ in.exit \in AvailablePaths(v)
      BY DEF IInv, StateOK, InputsInv
    <2>2. confirmedAt[v] \in 2 .. Height /\ Height \in Nat
      BY <2>1 DEF IInv, StateOK, ChainInv
    <2>3. exit.value \in Nat
      <3>1. in.exit \in 1 .. Len(Leaves)
        BY <2>1 DEF ExitPaths
      <3>2. exit \in [kind : {"multisig", "csv", "conditionCsv"},
                      type : {"blocks", "seconds"}, value : Nat]
        BY <3>1, ExitAssumption, ElementOfSeq
      <3> QED
        BY <3>2
    <2>4. tip.height \in 1 .. Height /\ tip.time = medianTime[tip.height]
      BY DEF IInv, InputsInv
    <2>5. Available(exit, [height |-> confirmedAt[v], time |-> blockTime[confirmedAt[v]]], tip)
      BY <2>1 DEF AvailablePaths
    <2>6. CASE exit.type = "blocks"
      BY <2>2, <2>3, <2>4, <2>5, <2>6 DEF Available, Mature
    <2>7. CASE exit.type # "blocks"
      <3> DEFINE c == confirmedAt[v]
      <3>1. tip.time >= blockTime[c] + exit.value
        BY <2>5, <2>7 DEF Available
      <3>2. blockTime[c] > medianTime[c - 1]
        BY <2>2 DEF IInv, ChainInv
      <3>3. medianTime[tip.height] <= medianTime[Height]
        BY <2>2, <2>4 DEF IInv, ChainInv
      <3>4. /\ medianTime[c - 1] \in Nat /\ blockTime[c] \in Nat
            /\ medianTime[Height] \in Nat /\ medianTime[tip.height] \in Nat
        <4>1. /\ blockTime \in Seq(Nat) /\ medianTime \in Seq(Nat)
              /\ Len(blockTime) = Height /\ Len(medianTime) = Height
          BY DEF IInv, StateOK, Height
        <4>2. c \in 1 .. Height /\ c - 1 \in 1 .. Height /\ Height \in 1 .. Height
          BY <2>2
        <4> QED
          BY <2>4, <4>1, <4>2, ElementOfSeq
      <3>5. medianTime[Height] >= medianTime[c - 1] + exit.value
        BY <2>3, <2>4, <3>1, <3>2, <3>3, <3>4
      <3> QED
        BY <2>2, <2>7, <3>5 DEF Mature
    <2> QED
      BY <2>6, <2>7
  <1> QED
    BY <1>1, Invariance, PTL

\* Types: no amount is ever negative, and the inputs are exits of the tap tree.
THEOREM TypeCorrect == Spec => []TypeOK
  <1>1. IInv => TypeOK
    BY DEF IInv, TypeOK
  <1> QED
    BY <1>1, Invariance, PTL

\* The transaction of completeUnroll spends all the vtxos that were found, each
\* once and each out, and pays out their sum less the fee.
THEOREM Conserves == Spec => []ExitConservesValue
  <1>1. IInv => ExitConservesValue
    <2> SUFFICES ASSUME IInv, pc = "broadcasting"
                 PROVE  /\ found # {}
                        /\ {in.vtxo : in \in inputs} = found
                        /\ Cardinality(inputs) = Cardinality(found)
                        /\ found \subseteq unrolled
                        /\ \E rate \in FeeRates :
                              output + Fee(Cardinality(found), EffectiveRate(rate))
                                = SumFunctionOnSet(Amount, found)
      BY DEF ExitConservesValue
    <2>1. todo = {} /\ found \ todo = found /\ found # {} /\ out \subseteq unrolled
      BY DEF IInv, TallyInv, StateOK
    <2>2. /\ {in.vtxo : in \in inputs} = found /\ Cardinality(inputs) = Cardinality(found)
          /\ found \subseteq unrolled /\ total = SumFunctionOnSet(Amount, found)
      BY <2>1 DEF IInv, TallyInv
    <2>3. PICK rate \in FeeRates : output = total - Fee(Cardinality(inputs), EffectiveRate(rate))
      BY DEF IInv, TallyInv
    <2>4. Cardinality(found) \in Nat
      <3>1. IsFiniteSet(found)
        BY ExitAssumption, FS_Subset DEF IInv, StateOK
      <3> QED
        BY <3>1, FS_CardinalityType
    <2>5. Fee(Cardinality(found), EffectiveRate(rate)) \in Nat /\ total \in Nat
      BY <2>4, FeeNat DEF IInv, AmountsOK
    <2>6. output + Fee(Cardinality(found), EffectiveRate(rate)) = SumFunctionOnSet(Amount, found)
      BY <2>2, <2>3, <2>5
    <2> QED
      BY <2>1, <2>2, <2>6
  <1> QED
    BY <1>1, Invariance, PTL
==============================================================================
