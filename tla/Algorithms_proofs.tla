-------------------------- MODULE Algorithms_proofs ---------------------------
(***************************************************************************)
(* What sums over finite sets are, from the well-foundedness of the strict *)
(* subset ordering; what selectCoins and selectVirtualCoins answer for any *)
(* set of coins and any target; and what TxTree.create and validate let    *)
(* through, whatever the chunks say.                                       *)
(***************************************************************************)
EXTENDS CoinSelection, TxTree, TLAPS, FiniteSetTheorems, SequenceTheorems,
        WellFoundedInduction


\* The element a fold takes next.
Some(s) == CHOOSE x \in s : TRUE

\* it is the sums of f over the subsets of T.
IsIter(it, f, T) ==
    it = [s \in SUBSET T |-> IF s = {} THEN 0 ELSE f[Some(s)] + it[s \ {Some(s)}]]

\* What is chosen is a member.
LEMMA SomeIn ==
    ASSUME NEW s, s # {}
    PROVE  Some(s) \in s
  BY DEF Some

\* A collection of subsets of a finite set has a smallest member: what every
\* induction below rests on.
LEMMA Smallest ==
    ASSUME NEW S, IsFiniteSet(S), NEW Bad, Bad \subseteq SUBSET S, Bad # {}
    PROVE  \E s \in Bad : \A t \in Bad : ~(t \subseteq s /\ t # s)
  <1>1. Bad \subseteq FiniteSubsetsOf(S)
     BY FS_FiniteSubsetsOfFinite
  <1>2. \E s \in Bad : \A t \in Bad : <<t, s>> \notin StrictSubsetOrdering(S)
     BY <1>1, WFMin, FS_StrictSubsetOrderingWellFounded
  <1>3. QED
     BY <1>2 DEF StrictSubsetOrdering

\* Two iterations agree where both are defined.
LEMMA IterAgree ==
    ASSUME NEW f, NEW S, IsFiniteSet(S), NEW T, S \subseteq T,
           NEW g, IsIter(g, f, S), NEW h, IsIter(h, f, T)
    PROVE  g[S] = h[S]
  <1> DEFINE Bad == {s \in SUBSET S : g[s] # h[s]}
  <1>1. Bad = {}
    <2> SUFFICES ASSUME Bad # {} PROVE FALSE
      OBVIOUS
    <2>0. Bad \subseteq SUBSET S
      OBVIOUS
    <2>1. PICK s \in Bad : \A t \in Bad : ~(t \subseteq s /\ t # s)
      <3> HIDE DEF Bad
      <3> QED BY <2>0, Smallest
    <2>2. /\ g[s] = IF s = {} THEN 0 ELSE f[Some(s)] + g[s \ {Some(s)}]
          /\ h[s] = IF s = {} THEN 0 ELSE f[Some(s)] + h[s \ {Some(s)}]
      BY <2>1 DEF IsIter
    <2>3. CASE s = {}
      BY <2>1, <2>2, <2>3
    <2>4. CASE s # {}
      <3>1. s \ {Some(s)} \subseteq s /\ s \ {Some(s)} # s /\ s \ {Some(s)} \in SUBSET S
        BY <2>4, <2>1, SomeIn
      <3>2. g[s \ {Some(s)}] = h[s \ {Some(s)}]
        BY <3>1, <2>1
      <3> QED
        BY <3>2, <2>1, <2>2, <2>4
    <2> QED
      BY <2>3, <2>4
  <1> QED
    BY <1>1

\* One step of an iteration.
LEMMA IterAt ==
    ASSUME NEW f, NEW T, NEW it, IsIter(it, f, T), NEW s \in SUBSET T
    PROVE  it[s] = IF s = {} THEN 0 ELSE f[Some(s)] + it[s \ {Some(s)}]
  BY DEF IsIter

Iter(f, T) == CHOOSE it : IsIter(it, f, T)

\* The iteration exists, so that CHOOSE finds it.
LEMMA IterExists ==
    ASSUME NEW f, NEW S, IsFiniteSet(S)
    PROVE  IsIter(Iter(f, S), f, S)
  <1> DEFINE Bad == {s \in SUBSET S : ~ \E it : IsIter(it, f, s)}
  <1>1. Bad = {}
    <2> SUFFICES ASSUME Bad # {} PROVE FALSE
      OBVIOUS
    <2>0. Bad \subseteq SUBSET S
      OBVIOUS
    <2>1. PICK T \in Bad : \A t \in Bad : ~(t \subseteq T /\ t # T)
      <3> HIDE DEF Bad
      <3> QED BY <2>0, Smallest
    <2>2. \A u \in SUBSET T : u # T => IsIter(Iter(f, u), f, u)
      BY <2>1 DEF Iter
    <2> DEFINE G(s) == IF s = {} THEN 0 ELSE f[Some(s)] + Iter(f, s \ {Some(s)})[s \ {Some(s)}]
               it == [s \in SUBSET T |-> G(s)]
    <2>3. \A u \in SUBSET T : u # T => Iter(f, u)[u] = G(u)
      <3> SUFFICES ASSUME NEW u \in SUBSET T, u # T PROVE Iter(f, u)[u] = G(u)
        OBVIOUS
      <3>1. Iter(f, u)[u] = IF u = {} THEN 0 ELSE f[Some(u)] + Iter(f, u)[u \ {Some(u)}]
        BY <2>2 DEF IsIter
      <3>2. CASE u = {}
        BY <3>1, <3>2
      <3>3. CASE u # {}
        <4> DEFINE w == u \ {Some(u)}
        <4>1. w \in SUBSET T /\ w # T /\ w \subseteq u
          BY <3>3, SomeIn
        <4>2. IsFiniteSet(w)
          BY <4>1, FS_Subset, T \in SUBSET S
        <4>3. Iter(f, w)[w] = Iter(f, u)[w]
          <5> HIDE DEF w
          <5> QED BY <4>1, <4>2, <2>2, IterAgree
        <4> QED
          BY <4>3, <3>1, <3>3
      <3> QED BY <3>2, <3>3
    <2>4. \A s \in SUBSET T : s # {} => s \ {Some(s)} \in SUBSET T /\ s \ {Some(s)} # T
      BY SomeIn
    <2>5. \A s \in SUBSET T : it[s] = IF s = {} THEN 0 ELSE f[Some(s)] + it[s \ {Some(s)}]
      <3> SUFFICES ASSUME NEW s \in SUBSET T
          PROVE it[s] = IF s = {} THEN 0 ELSE f[Some(s)] + it[s \ {Some(s)}]
        OBVIOUS
      <3>1. s # {} => it[s \ {Some(s)}] = G(s \ {Some(s)})
        BY <2>4
      <3>2. s # {} => it[s \ {Some(s)}] = Iter(f, s \ {Some(s)})[s \ {Some(s)}]
        <4> HIDE DEF it, G
        <4> QED BY <3>1, <2>3, <2>4
      <3>3. it[s] = G(s)
        OBVIOUS
      <3> QED
        BY <3>2, <3>3
    <2>6. IsIter(it, f, T)
      <3> it = [s \in SUBSET T |-> it[s]]
        OBVIOUS
      <3> HIDE DEF it
      <3> QED BY <2>5 DEF IsIter
    <2> QED
      BY <2>1, <2>6
  <1> QED
    BY <1>1 DEF Iter

\* The sum of the community modules is this iteration.
LEMMA Expand ==
    ASSUME NEW f, NEW S
    PROVE  SumFunctionOnSet(f, S) = Iter(f, S)[S]
  BY DEF SumFunctionOnSet, FoldFunctionOnSet, MapThenFoldSet, IsIter, Iter, Some

\* A sum is its chosen element and the sum of the rest.
LEMMA SumStep ==
    ASSUME NEW f, NEW S, IsFiniteSet(S)
    PROVE  SumFunctionOnSet(f, S) =
              IF S = {} THEN 0
              ELSE f[Some(S)] + SumFunctionOnSet(f, S \ {Some(S)})
  <1>1. CASE S = {}
    BY <1>1, Expand, IterExists, IterAt
  <1>2. CASE S # {}
    <2> DEFINE w == S \ {Some(S)}
    <2>1. w \subseteq S /\ IsFiniteSet(w)
      BY FS_Subset
    <2>2. Iter(f, w)[w] = Iter(f, S)[w]
      <3> HIDE DEF w
      <3> QED BY <2>1, IterExists, IterAgree
    <2>3. Iter(f, S)[S] = f[Some(S)] + Iter(f, S)[w]
      BY <1>2, IterExists, IterAt
    <2> QED
      BY <2>2, <2>3, <1>2, Expand
  <1> QED
    BY <1>1, <1>2

-----------------------------------------------------------------------------
\* Induction over a finite set, with a set X for the predicate.
LEMMA SetInduction ==
    ASSUME NEW S, IsFiniteSet(S), NEW X, {} \in X,
           \A T \in SUBSET S : \A x \in S \ T : T \in X => T \cup {x} \in X
    PROVE  S \in X
  <1> DEFINE Bad == {s \in SUBSET S : s \notin X}
  <1>1. Bad = {}
    <2> SUFFICES ASSUME Bad # {} PROVE FALSE
      OBVIOUS
    <2>0. Bad \subseteq SUBSET S
      OBVIOUS
    <2>1. PICK T \in Bad : \A t \in Bad : ~(t \subseteq T /\ t # T)
      <3> HIDE DEF Bad
      <3> QED BY <2>0, Smallest
    <2>2. PICK x \in T : TRUE
      BY <2>1
    <2>3. T \ {x} \in SUBSET S /\ x \in S \ (T \ {x}) /\ T = (T \ {x}) \cup {x}
      BY <2>1, <2>2
    <2>4. T \ {x} \in X
      BY <2>1, <2>2, <2>3
    <2>5. (T \ {x}) \cup {x} \in X
      BY <2>3, <2>4
    <2> QED
      BY <2>1, <2>3, <2>5
  <1> QED
    BY <1>1

\* The empty sum.
LEMMA SumEmpty ==
    ASSUME NEW f
    PROVE  SumFunctionOnSet(f, {}) = 0
  BY SumStep, FS_EmptySet

\* A sum of integers is one.
LEMMA SumType ==
    ASSUME NEW S, IsFiniteSet(S), NEW f, \A x \in S : f[x] \in Int
    PROVE  SumFunctionOnSet(f, S) \in Int
  <1> DEFINE Bad == {s \in SUBSET S : SumFunctionOnSet(f, s) \notin Int}
  <1>1. Bad = {}
    <2> SUFFICES ASSUME Bad # {} PROVE FALSE
      OBVIOUS
    <2>0. Bad \subseteq SUBSET S
      OBVIOUS
    <2>1. PICK T \in Bad : \A t \in Bad : ~(t \subseteq T /\ t # T)
      <3> HIDE DEF Bad
      <3> QED BY <2>0, Smallest
    <2>2. IsFiniteSet(T)
      BY <2>1, FS_Subset
    <2>3. T # {}
      <3>1. SumFunctionOnSet(f, {}) \in Int
        BY SumEmpty
      <3> QED
        BY <2>1, <3>1
    <2>4. Some(T) \in T
      BY <2>3, SomeIn
    <2>5. SumFunctionOnSet(f, T) = f[Some(T)] + SumFunctionOnSet(f, T \ {Some(T)})
      BY <2>2, <2>3, SumStep
    <2>6. SumFunctionOnSet(f, T \ {Some(T)}) \in Int
      BY <2>1, <2>4
    <2>7. f[Some(T)] \in Int
      BY <2>1, <2>4
    <2>8. SumFunctionOnSet(f, T) \in Int
      BY <2>5, <2>6, <2>7
    <2> QED
      BY <2>1, <2>8
  <1> QED
    BY <1>1

\* Any element can be taken out of a sum, not only the chosen one.
LEMMA SumRemove ==
    ASSUME NEW S, IsFiniteSet(S), NEW f, \A x \in S : f[x] \in Int, NEW a \in S
    PROVE  SumFunctionOnSet(f, S) = f[a] + SumFunctionOnSet(f, S \ {a})
  <1> DEFINE Rem(s, b) == SumFunctionOnSet(f, s) = f[b] + SumFunctionOnSet(f, s \ {b})
             Bad == {s \in SUBSET S : ~ \A b \in s : Rem(s, b)}
  <1>1. Bad = {}
    <2> SUFFICES ASSUME Bad # {} PROVE FALSE
      OBVIOUS
    <2>0. Bad \subseteq SUBSET S
      OBVIOUS
    <2>1. PICK T \in Bad : \A t \in Bad : ~(t \subseteq T /\ t # T)
      <3> HIDE DEF Bad
      <3> QED BY <2>0, Smallest
    <2>2. IsFiniteSet(T) /\ T \subseteq S
      BY <2>1, FS_Subset
    <2>3. PICK b \in T : ~Rem(T, b)
      BY <2>1
    <2> DEFINE c == Some(T)
    <2>4. c \in T
      BY <2>3, SomeIn
    <2>5. Rem(T, c)
      BY <2>2, <2>3, SumStep
    <2>6. b # c
      BY <2>3, <2>5
    <2> HIDE DEF c
    <2>7. T \ {b} \in SUBSET S /\ T \ {b} # T /\ T \ {c} \in SUBSET S /\ T \ {c} # T
      BY <2>2, <2>3, <2>4
    <2>8. Rem(T \ {b}, c)
      BY <2>7, <2>1, <2>4, <2>6
    <2>9. Rem(T \ {c}, b)
      BY <2>7, <2>1, <2>3, <2>6
    <2>10. (T \ {b}) \ {c} = (T \ {c}) \ {b}
      OBVIOUS
    <2> DEFINE rest == SumFunctionOnSet(f, (T \ {b}) \ {c})
    <2>11. rest \in Int /\ f[b] \in Int /\ f[c] \in Int
      <3>1. IsFiniteSet((T \ {b}) \ {c})
        BY <2>2, FS_Subset
      <3>2. \A x \in (T \ {b}) \ {c} : f[x] \in Int
        BY <2>2
      <3> QED
        BY <3>1, <3>2, SumType, <2>2, <2>3, <2>4
    <2>12. SumFunctionOnSet(f, T) = f[c] + (f[b] + rest)
      BY <2>5, <2>9, <2>10
    <2>13. SumFunctionOnSet(f, T \ {b}) = f[c] + rest
      BY <2>8
    <2> HIDE DEF rest
    <2>14. Rem(T, b)
      BY <2>11, <2>12, <2>13
    <2> QED
      BY <2>3, <2>14
  <1> QED
    BY <1>1

\* An element is added to a sum.
LEMMA SumAdd ==
    ASSUME NEW S, IsFiniteSet(S), NEW a, a \notin S, NEW f, \A x \in S \cup {a} : f[x] \in Int
    PROVE  SumFunctionOnSet(f, S \cup {a}) = f[a] + SumFunctionOnSet(f, S)
  <1>1. IsFiniteSet(S \cup {a}) /\ a \in S \cup {a} /\ (S \cup {a}) \ {a} = S
    BY FS_AddElement
  <1> QED
    BY <1>1, SumRemove

\* A sum depends on the values over its set alone.
LEMMA SumSame ==
    ASSUME NEW S, IsFiniteSet(S), NEW f, NEW g, \A x \in S : f[x] = g[x]
    PROVE  SumFunctionOnSet(f, S) = SumFunctionOnSet(g, S)
  <1> DEFINE X == {s \in SUBSET S : SumFunctionOnSet(f, s) # SumFunctionOnSet(g, s)}
  <1>1. X = {}
    <2> SUFFICES ASSUME X # {} PROVE FALSE
      OBVIOUS
    <2>0. X \subseteq SUBSET S
      OBVIOUS
    <2>1. PICK T \in X : \A t \in X : ~(t \subseteq T /\ t # T)
      <3> HIDE DEF X
      <3> QED BY <2>0, Smallest
    <2>2. IsFiniteSet(T)
      BY <2>1, FS_Subset
    <2>3. T # {}
      <3>1. SumFunctionOnSet(f, {}) = SumFunctionOnSet(g, {})
        BY SumEmpty
      <3> QED
        BY <2>1, <3>1
    <2>4. Some(T) \in T
      BY <2>3, SomeIn
    <2>5. /\ SumFunctionOnSet(f, T) = f[Some(T)] + SumFunctionOnSet(f, T \ {Some(T)})
          /\ SumFunctionOnSet(g, T) = g[Some(T)] + SumFunctionOnSet(g, T \ {Some(T)})
      BY <2>2, <2>3, SumStep
    <2>6. T \ {Some(T)} \notin X
      BY <2>1, <2>4
    <2> QED
      BY <2>1, <2>4, <2>5, <2>6
  <1> QED
    BY <1>1

\* A sum of naturals is one.
LEMMA SumNat ==
    ASSUME NEW S, IsFiniteSet(S), NEW f, \A x \in S : f[x] \in Nat
    PROVE  SumFunctionOnSet(f, S) \in Nat
  <1> DEFINE X == {s \in SUBSET S : SumFunctionOnSet(f, s) \in Nat}
  <1>1. {} \in X
    BY SumEmpty
  <1>2. ASSUME NEW T \in SUBSET S, NEW x \in S \ T, T \in X
        PROVE  T \cup {x} \in X
    <2>1. IsFiniteSet(T) /\ \A y \in T \cup {x} : f[y] \in Int
      BY FS_Subset
    <2>2. SumFunctionOnSet(f, T \cup {x}) = f[x] + SumFunctionOnSet(f, T)
      BY <2>1, SumAdd
    <2> QED
      BY <2>2, <1>2
  <1>3. S \in X
    <2> HIDE DEF X
    <2> QED BY <1>1, <1>2, SetInduction
  <1> QED
    BY <1>3

\* Sums over disjoint sets add up.
LEMMA SumUnion ==
    ASSUME NEW S, IsFiniteSet(S), NEW T, IsFiniteSet(T), S \cap T = {},
           NEW f, \A x \in S \cup T : f[x] \in Int
    PROVE  SumFunctionOnSet(f, S \cup T) = SumFunctionOnSet(f, S) + SumFunctionOnSet(f, T)
  <1> DEFINE Sum(s) == SumFunctionOnSet(f, s)
             X == {s \in SUBSET T : Sum(S \cup s) = Sum(S) + Sum(s)}
  <1>0. \A s \in SUBSET T : Sum(s) \in Int /\ IsFiniteSet(s) /\ IsFiniteSet(S \cup s)
    BY SumType, FS_Subset, FS_Union
  <1>1. {} \in X
    BY SumEmpty, SumType
  <1>2. ASSUME NEW s \in SUBSET T, NEW x \in T \ s, s \in X
        PROVE  s \cup {x} \in X
    <2>1. Sum(s \cup {x}) = f[x] + Sum(s)
      BY <1>0, SumAdd
    <2>2. Sum((S \cup s) \cup {x}) = f[x] + Sum(S \cup s)
      BY <1>0, SumAdd
    <2>3. Sum(S) \in Int /\ Sum(s) \in Int /\ f[x] \in Int
      BY SumType, <1>0
    <2>4. (S \cup s) \cup {x} = S \cup (s \cup {x})
      OBVIOUS
    <2>5. Sum(S \cup s) = Sum(S) + Sum(s)
      BY <1>2
    <2>6. Sum((S \cup s) \cup {x}) = Sum(S \cup (s \cup {x}))
      BY <2>4
    <2>7. s \cup {x} \in SUBSET T
      OBVIOUS
    <2>8. Sum(S \cup (s \cup {x})) = Sum(S) + Sum(s \cup {x})
      <3> HIDE DEF Sum
      <3> QED BY <2>1, <2>2, <2>3, <2>5, <2>6
    <2> QED
      BY <2>7, <2>8
  <1>3. T \in X
    <2> HIDE DEF X
    <2> QED BY <1>1, <1>2, SetInduction
  <1> QED
    BY <1>3

\* A part of a sum of naturals is no more than the whole.
LEMMA SumSubset ==
    ASSUME NEW S, IsFiniteSet(S), NEW T \in SUBSET S, NEW f, \A x \in S : f[x] \in Nat
    PROVE  SumFunctionOnSet(f, T) <= SumFunctionOnSet(f, S)
  <1>1. IsFiniteSet(T) /\ IsFiniteSet(S \ T) /\ T \cup (S \ T) = S /\ T \cap (S \ T) = {}
    BY FS_Subset
  <1>2. SumFunctionOnSet(f, T \cup (S \ T)) = SumFunctionOnSet(f, T) + SumFunctionOnSet(f, S \ T)
    BY <1>1, SumUnion
  <1>3. SumFunctionOnSet(f, T) \in Nat /\ SumFunctionOnSet(f, S \ T) \in Nat
    BY <1>1, SumNat
  <1>4. SumFunctionOnSet(f, S) = SumFunctionOnSet(f, T) + SumFunctionOnSet(f, S \ T)
    BY <1>1, <1>2, Zenon
  <1> QED
    BY <1>3, <1>4

-----------------------------------------------------------------------------
\* Sets of coins as the wallet lists them: finitely many, of natural values.
IsCoins(C) == IsFiniteSet(C) /\ \A c \in C : c.value \in Nat

\* The part of a set of coins is one.
LEMMA CoinsSubset ==
    ASSUME NEW C, IsCoins(C), NEW S \in SUBSET C
    PROVE  IsCoins(S)
  BY FS_Subset DEF IsCoins

\* Coins put together are coins.
LEMMA CoinsUnion ==
    ASSUME NEW A, IsCoins(A), NEW B, IsCoins(B)
    PROVE  IsCoins(A \cup B)
  BY FS_Union DEF IsCoins

\* The value of a part of C is a sum of one function of C.
LEMMA ValueIn ==
    ASSUME NEW C, IsCoins(C), NEW S \in SUBSET C
    PROVE  Value(S) = SumFunctionOnSet([c \in C |-> c.value], S)
  <1> DEFINE f == [c \in S |-> c.value]
             g == [c \in C |-> c.value]
  <1>1. IsFiniteSet(S) /\ \A x \in S : f[x] = g[x]
    BY FS_Subset DEF IsCoins
  <1>2. Value(S) = SumFunctionOnSet(f, S)
    BY DEF Value, SumFunction
  <1> HIDE DEF f, g
  <1>3. SumFunctionOnSet(f, S) = SumFunctionOnSet(g, S)
    BY <1>1, SumSame
  <1> QED
    BY <1>2, <1>3 DEF g

\* The value of no coin.
LEMMA ValueEmpty == Value({}) = 0
  BY SumEmpty DEF Value, SumFunction

\* Values are natural.
LEMMA ValueNat ==
    ASSUME NEW C, IsCoins(C)
    PROVE  Value(C) \in Nat
  <1> DEFINE g == [c \in C |-> c.value]
  <1>1. IsFiniteSet(C) /\ \A x \in C : g[x] \in Nat
    BY DEF IsCoins
  <1>2. Value(C) = SumFunctionOnSet(g, C)
    BY ValueIn
  <1> HIDE DEF g
  <1> QED
    BY <1>1, <1>2, SumNat

\* The value of one coin more.
LEMMA ValueAdd ==
    ASSUME NEW C, IsCoins(C), NEW a, a \notin C, a.value \in Nat
    PROVE  Value(C \cup {a}) = Value(C) + a.value
  <1> DEFINE D == C \cup {a}
             g == [c \in D |-> c.value]
  <1>1. IsCoins(D) /\ C \in SUBSET D /\ D \in SUBSET D
    BY FS_AddElement DEF IsCoins
  <1>2. Value(D) = SumFunctionOnSet(g, D) /\ Value(C) = SumFunctionOnSet(g, C)
    <2> HIDE DEF D
    <2> QED BY <1>1, ValueIn
  <1>3. IsFiniteSet(C) /\ (\A x \in C \cup {a} : g[x] \in Int) /\ g[a] = a.value
    BY <1>1 DEF IsCoins
  <1>4. SumFunctionOnSet(g, C) \in Int
    <2> HIDE DEF g
    <2> QED BY <1>3, SumType
  <1> HIDE DEF g
  <1>5. SumFunctionOnSet(g, C \cup {a}) = g[a] + SumFunctionOnSet(g, C)
    BY <1>3, SumAdd
  <1> QED
    BY <1>2, <1>3, <1>4, <1>5

\* The value of a coin less.
LEMMA ValueRemove ==
    ASSUME NEW C, IsCoins(C), NEW a \in C
    PROVE  Value(C) = Value(C \ {a}) + a.value
  <1> DEFINE D == C \ {a}
  <1>1. IsCoins(D) /\ a \notin D /\ D \cup {a} = C
    BY CoinsSubset
  <1>2. a.value \in Nat
    BY DEF IsCoins
  <1> HIDE DEF D
  <1>3. Value(D \cup {a}) = Value(D) + a.value
    BY <1>1, <1>2, ValueAdd
  <1> QED
    BY <1>1, <1>3 DEF D

\* A part of the coins is worth no more than all of them.
LEMMA ValueSubset ==
    ASSUME NEW C, IsCoins(C), NEW S \in SUBSET C
    PROVE  Value(S) <= Value(C)
  <1> DEFINE g == [c \in C |-> c.value]
  <1>1. IsFiniteSet(C) /\ \A x \in C : g[x] \in Nat
    BY DEF IsCoins
  <1>2. Value(S) = SumFunctionOnSet(g, S) /\ Value(C) = SumFunctionOnSet(g, C)
    BY ValueIn
  <1> HIDE DEF g
  <1> QED
    BY <1>1, <1>2, SumSubset

\* The values of disjoint sets of coins add up.
LEMMA ValueUnion ==
    ASSUME NEW A, IsCoins(A), NEW B, IsCoins(B), A \cap B = {}
    PROVE  Value(A \cup B) = Value(A) + Value(B)
  <1> DEFINE C == A \cup B
             g == [c \in C |-> c.value]
  <1>1. IsCoins(C) /\ A \in SUBSET C /\ B \in SUBSET C /\ C \in SUBSET C
    BY CoinsUnion
  <1>2. Value(A) = SumFunctionOnSet(g, A) /\ Value(B) = SumFunctionOnSet(g, B)
        /\ Value(C) = SumFunctionOnSet(g, C)
    <2> HIDE DEF C
    <2> QED BY <1>1, ValueIn
  <1>3. IsFiniteSet(A) /\ IsFiniteSet(B) /\ \A x \in A \cup B : g[x] \in Int
    BY <1>1 DEF IsCoins
  <1> HIDE DEF g
  <1>4. SumFunctionOnSet(g, A \cup B) = SumFunctionOnSet(g, A) + SumFunctionOnSet(g, B)
    BY <1>3, SumUnion
  <1> QED
    BY <1>2, <1>4

\* Splitting a set of coins splits its value.
LEMMA ValueSplit ==
    ASSUME NEW C, IsCoins(C), NEW S \in SUBSET C
    PROVE  Value(C) = Value(S) + Value(C \ S)
  <1>1. IsCoins(S) /\ IsCoins(C \ S) /\ S \cup (C \ S) = C /\ S \cap (C \ S) = {}
    BY CoinsSubset
  <1>2. Value(S \cup (C \ S)) = Value(S) + Value(C \ S)
    BY <1>1, ValueUnion
  <1> QED
    BY <1>1, <1>2

-----------------------------------------------------------------------------
\* As many coins, each worth at least as much as any of the others, are worth
\* at least as much together.
LEMMA Dominated ==
    ASSUME NEW A, IsCoins(A), NEW B, IsCoins(B), Cardinality(B) <= Cardinality(A),
           \A a \in A, b \in B : b.value <= a.value
    PROVE  Value(B) <= Value(A)
  <1> DEFINE X == {T \in SUBSET B :
                     \A S \in SUBSET A : Cardinality(T) <= Cardinality(S) => Value(T) <= Value(S)}
  <1>0. /\ \A S \in SUBSET A : IsCoins(S) /\ Value(S) \in Nat /\ Cardinality(S) \in Nat
        /\ \A T \in SUBSET B : IsCoins(T) /\ Value(T) \in Nat /\ Cardinality(T) \in Nat
    BY CoinsSubset, ValueNat, FS_CardinalityType DEF IsCoins
  <1>1. {} \in X
    BY <1>0, ValueEmpty
  <1>2. ASSUME NEW T \in SUBSET B, NEW x \in B \ T, T \in X
        PROVE  T \cup {x} \in X
    <2>1. SUFFICES ASSUME NEW S \in SUBSET A, Cardinality(T \cup {x}) <= Cardinality(S)
                   PROVE  Value(T \cup {x}) <= Value(S)
      BY <1>2
    <2>2. Cardinality(T \cup {x}) = Cardinality(T) + 1
      BY <1>0, FS_AddElement DEF IsCoins
    <2>3. S # {}
      BY <2>1, <2>2, <1>0, FS_EmptySet
    <2>4. PICK y \in S : TRUE
      BY <2>3
    <2>5. Cardinality(S \ {y}) = Cardinality(S) - 1
      BY <1>0, <2>4, FS_RemoveElement DEF IsCoins
    <2>6. Cardinality(T) <= Cardinality(S \ {y}) /\ S \ {y} \in SUBSET A
      BY <2>1, <2>2, <2>5, <1>0
    <2>7. Value(T) <= Value(S \ {y})
      BY <2>6, <1>2
    <2>8. Value(S) = Value(S \ {y}) + y.value
      BY <1>0, <2>4, ValueRemove
    <2>9. Value(T \cup {x}) = Value(T) + x.value
      BY <1>0, <1>2, ValueAdd DEF IsCoins
    <2>10. x.value <= y.value /\ x.value \in Nat /\ y.value \in Nat
      BY <1>2, <2>4 DEF IsCoins
    <2> QED
      BY <2>6, <2>7, <2>8, <2>9, <2>10, <1>0
  <1>3. \A T \in SUBSET B : \A x \in B \ T : T \in X => T \cup {x} \in X
    BY <1>2
  <1>4. IsFiniteSet(B)
    BY DEF IsCoins
  <1>5. B \in X
    <2> HIDE DEF X
    <2> QED BY <1>1, <1>3, <1>4, SetInduction
  <1> QED
    BY <1>5

\* The same of sets that share coins: only what differs is compared.
LEMMA Exchange ==
    ASSUME NEW A, IsCoins(A), NEW B, IsCoins(B), Cardinality(B) <= Cardinality(A),
           \A a \in A \ B, b \in B \ A : b.value <= a.value
    PROVE  Value(B) <= Value(A)
  <1> DEFINE M == A \cap B
  <1>1. M \in SUBSET A /\ M \in SUBSET B /\ A \ M = A \ B /\ B \ M = B \ A
    OBVIOUS
  <1>2. IsCoins(M) /\ IsCoins(A \ B) /\ IsCoins(B \ A)
    BY CoinsSubset
  <1>3. Value(A) = Value(M) + Value(A \ B) /\ Value(B) = Value(M) + Value(B \ A)
    <2> HIDE DEF M
    <2> QED BY <1>1, ValueSplit
  <1>4. Cardinality(A \ B) = Cardinality(A) - Cardinality(M)
        /\ Cardinality(B \ A) = Cardinality(B) - Cardinality(M)
    <2>1. /\ (A \ B) \cap M = {} /\ (A \ B) \cup M = A
          /\ (B \ A) \cap M = {} /\ (B \ A) \cup M = B
      OBVIOUS
    <2>2. /\ Cardinality(A) = Cardinality(A \ B) + Cardinality(M) - Cardinality((A \ B) \cap M)
          /\ Cardinality(B) = Cardinality(B \ A) + Cardinality(M) - Cardinality((B \ A) \cap M)
      <3> HIDE DEF M
      <3> QED BY <1>2, <2>1, FS_Union DEF IsCoins
    <2>3. Cardinality(A \ B) \in Nat /\ Cardinality(B \ A) \in Nat /\ Cardinality(M) \in Nat
      BY <1>2, FS_CardinalityType DEF IsCoins
    <2> QED
      BY <2>1, <2>2, <2>3, FS_EmptySet
  <1>5. Cardinality(A) \in Nat /\ Cardinality(B) \in Nat /\ Cardinality(M) \in Nat
    BY <1>2, FS_CardinalityType DEF IsCoins
  <1>6. Value(B \ A) <= Value(A \ B)
    <2>1. Cardinality(B \ A) <= Cardinality(A \ B)
      BY <1>4, <1>5
    <2> QED
      BY <1>2, <2>1, Dominated
  <1>7. Value(M) \in Nat /\ Value(A \ B) \in Nat /\ Value(B \ A) \in Nat
    BY <1>2, ValueNat
  <1> QED
    BY <1>3, <1>6, <1>7

-----------------------------------------------------------------------------
\* What selectCoins is asked for: change needs a sat more than the target.
Covers(S, target, forceChange) ==
    Value(S) > target \/ (~forceChange /\ Value(S) = target)

\* selectCoins, with its loop written out.
LEMMA SelectCoinsIs ==
    ASSUME NEW C, NEW target, NEW forceChange, NEW S \in SelectCoins(C, target, forceChange)
    PROVE  /\ S \in SUBSET C
           /\ \A a \in S, b \in C \ S : ~(b.value > a.value)
           /\ S = C \/ Covers(S, target, forceChange)
           /\ S # {} => \E last \in S :
                 /\ \A a \in S : ~(last.value > a.value)
                 /\ ~Covers(S \ {last}, target, forceChange)
  BY DEF SelectCoins, Selection, LargerFirst, Covers

\* selectCoins answers as few coins as any of its coins that would be enough.
THEOREM SelectCoinsFewest ==
    ASSUME NEW C, IsCoins(C), NEW target \in Int, NEW forceChange \in BOOLEAN,
           NEW S \in SelectCoins(C, target, forceChange),
           NEW T \in SUBSET C, Covers(T, target, forceChange)
    PROVE  Cardinality(S) <= Cardinality(T)
  <1> SUFFICES ASSUME ~(Cardinality(S) <= Cardinality(T)) PROVE FALSE
    OBVIOUS
  <1>1. IsCoins(S) /\ IsCoins(T) /\ S \in SUBSET C
    BY SelectCoinsIs, CoinsSubset
  <1>2. Cardinality(S) \in Nat /\ Cardinality(T) \in Nat
    BY <1>1, FS_CardinalityType DEF IsCoins
  <1>3. S # {}
    BY <1>1, <1>2, FS_EmptySet
  <1>4. PICK last \in S : /\ \A a \in S : ~(last.value > a.value)
                          /\ ~Covers(S \ {last}, target, forceChange)
    BY <1>3, SelectCoinsIs
  <1> DEFINE A == S \ {last}
  <1>5. IsCoins(A) /\ Cardinality(T) <= Cardinality(A)
    <2>1. A \in SUBSET S /\ IsFiniteSet(S)
      BY <1>1 DEF IsCoins
    <2>2. Cardinality(A) = Cardinality(S) - 1
      BY <2>1, <1>4, FS_RemoveElement
    <2> QED
      BY <1>1, <1>2, <2>1, <2>2, CoinsSubset
  <1>6. \A a \in A \ T, b \in T \ A : b.value <= a.value
    <2> SUFFICES ASSUME NEW a \in S, NEW b \in T, b = last \/ b \in C \ S
                 PROVE  b.value <= a.value
      BY <1>1
    <2>1. a.value \in Nat /\ b.value \in Nat
      BY <1>1 DEF IsCoins
    <2>2. ~(b.value > a.value)
      BY <1>4, SelectCoinsIs
    <2> QED
      BY <2>1, <2>2
  <1> HIDE DEF A
  <1>7. Value(T) <= Value(A) /\ Value(T) \in Nat /\ Value(A) \in Nat
    BY <1>1, <1>5, <1>6, Exchange, ValueNat
  <1> QED
    BY <1>4, <1>7 DEF Covers, A

\* selectCoins answers coins that are not enough only when all of them are not.
THEOREM SelectCoinsFails ==
    ASSUME NEW C, IsCoins(C), NEW target \in Int, NEW forceChange \in BOOLEAN,
           NEW S \in SelectCoins(C, target, forceChange)
    PROVE  Value(S) < target <=> Value(C) < target
  <1>1. IsCoins(S) /\ S \in SUBSET C /\ (S = C \/ Covers(S, target, forceChange))
    BY SelectCoinsIs, CoinsSubset
  <1>2. Value(S) \in Nat /\ Value(C) \in Nat /\ Value(S) <= Value(C)
    BY <1>1, ValueNat, ValueSubset
  <1> QED
    BY <1>1, <1>2 DEF Covers

-----------------------------------------------------------------------------
\* selectVirtualCoins, with its loop written out.
LEMMA SelectVirtualCoinsIs ==
    ASSUME NEW C, NEW target, NEW S \in SelectVirtualCoins(C, target)
    PROVE  /\ S \in SUBSET C
           /\ \A a \in S, b \in C \ S : ~SoonerFirst(b, a)
           /\ S = C \/ Value(S) >= target
           /\ S # {} => \E last \in S :
                 /\ \A a \in S : ~SoonerFirst(last, a)
                 /\ ~(Value(S \ {last}) >= target)
  BY DEF SelectVirtualCoins, Selection

-----------------------------------------------------------------------------
(* Sums by groups. *)

\* Induction over the subsets of a finite set, from all smaller ones.
LEMMA SubsetInduction ==
    ASSUME NEW S, IsFiniteSet(S), NEW X,
           \A T \in SUBSET S : (\A t \in SUBSET T : t # T => t \in X) => T \in X
    PROVE  \A T \in SUBSET S : T \in X
  <1> DEFINE Bad == {s \in SUBSET S : s \notin X}
  <1>1. Bad = {}
    <2> SUFFICES ASSUME Bad # {} PROVE FALSE
      OBVIOUS
    <2>0. Bad \subseteq SUBSET S
      OBVIOUS
    <2>1. PICK T \in Bad : \A t \in Bad : ~(t \subseteq T /\ t # T)
      <3> HIDE DEF Bad
      <3> QED BY <2>0, Smallest
    <2>2. \A t \in SUBSET T : t # T => t \in X
      BY <2>1
    <2> QED
      BY <2>1, <2>2
  <1> QED
    BY <1>1

\* The sum of one value.
LEMMA SumOne ==
    ASSUME NEW f, NEW a, f[a] \in Int
    PROVE  SumFunctionOnSet(f, {a}) = f[a]
  <1>1. SumFunctionOnSet(f, {} \cup {a}) = f[a] + SumFunctionOnSet(f, {})
    <2>1. IsFiniteSet({}) /\ a \notin {} /\ \A x \in {} \cup {a} : f[x] \in Int
      BY FS_EmptySet
    <2> DEFINE e == {}
    <2> HIDE DEF e
    <2>2. SumFunctionOnSet(f, e \cup {a}) = f[a] + SumFunctionOnSet(f, e)
      BY <2>1, SumAdd DEF e
    <2> QED
      BY <2>2 DEF e
  <1>2. {} \cup {a} = {a} /\ SumFunctionOnSet(f, {}) = 0
    BY SumEmpty
  <1> QED
    BY <1>1, <1>2

\* Sums of two functions add up to the sum of a third that adds their values.
LEMMA SumPlus ==
    ASSUME NEW S, IsFiniteSet(S), NEW f, NEW g, NEW h,
           \A x \in S : f[x] \in Int /\ g[x] \in Int /\ h[x] = f[x] + g[x]
    PROVE  SumFunctionOnSet(h, S) = SumFunctionOnSet(f, S) + SumFunctionOnSet(g, S)
  <1> DEFINE Sum(k, T) == SumFunctionOnSet(k, T)
             X == {T \in SUBSET S : Sum(h, T) = Sum(f, T) + Sum(g, T)}
  <1>1. {} \in X
    BY SumEmpty
  <1>2. ASSUME NEW T \in SUBSET S, NEW x \in S \ T, T \in X
        PROVE  T \cup {x} \in X
    <2>1. IsFiniteSet(T) /\ x \notin T
          /\ \A y \in T \cup {x} : f[y] \in Int /\ g[y] \in Int /\ h[y] \in Int
      BY FS_Subset
    <2>2. /\ Sum(f, T \cup {x}) = f[x] + Sum(f, T)
          /\ Sum(g, T \cup {x}) = g[x] + Sum(g, T)
          /\ Sum(h, T \cup {x}) = h[x] + Sum(h, T)
      BY <2>1, SumAdd
    <2>3. Sum(f, T) \in Int /\ Sum(g, T) \in Int /\ f[x] \in Int /\ g[x] \in Int /\ h[x] = f[x] + g[x]
      BY <2>1, SumType
    <2>4. Sum(h, T) = Sum(f, T) + Sum(g, T) /\ T \cup {x} \in SUBSET S
      BY <1>2
    <2>5. Sum(h, T \cup {x}) = Sum(f, T \cup {x}) + Sum(g, T \cup {x})
      <3> HIDE DEF Sum
      <3> QED
        BY <2>2, <2>3, <2>4
    <2> QED
      BY <2>4, <2>5
  <1>3. S \in X
    <2> HIDE DEF X
    <2> QED BY <1>1, <1>2, SetInduction
  <1> QED
    BY <1>3

\* A sum is the sum of the sums of its groups.
LEMMA SumGroups ==
    ASSUME NEW S, IsFiniteSet(S), NEW K, IsFiniteSet(K),
           NEW key, \A x \in S : key[x] \in K,
           NEW f, \A x \in S : f[x] \in Int,
           NEW part, \A k \in K : \A x : x \in part[k] <=> x \in S /\ key[x] = k,
           NEW g, \A k \in K : g[k] = SumFunctionOnSet(f, part[k])
    PROVE  SumFunctionOnSet(f, S) = SumFunctionOnSet(g, K)
  <1> DEFINE In(T) == {x \in S : key[x] \in T}
             Sum(T) == SumFunctionOnSet(f, T)
             X == {T \in SUBSET K : Sum(In(T)) = SumFunctionOnSet(g, T)}
  <1>0. \A T : T \in SUBSET S => IsFiniteSet(T) /\ Sum(T) \in Int
    BY FS_Subset, SumType
  <1>1. {} \in X
    <2>1. In({}) = {}
      OBVIOUS
    <2> QED
      BY <2>1, SumEmpty
  <1>2. ASSUME NEW T \in SUBSET K, NEW k \in K \ T, T \in X
        PROVE  T \cup {k} \in X
    <2> DEFINE A == {x \in S : key[x] = k}
               B == In(T)
    <2>1. A \in SUBSET S /\ B \in SUBSET S /\ A \cap B = {} /\ In(T \cup {k}) = A \cup B /\ A = part[k]
      OBVIOUS
    <2>2. IsFiniteSet(A) /\ IsFiniteSet(B) /\ \A x \in A \cup B : f[x] \in Int
      BY <1>0, <2>1
    <2>3. Sum(A \cup B) = Sum(A) + Sum(B)
      <3> HIDE DEF A, B
      <3> QED BY <2>1, <2>2, SumUnion
    <2>4. g[k] = Sum(A) /\ \A j \in K : g[j] \in Int
      <3>1. \A j \in K : part[j] \in SUBSET S
        OBVIOUS
      <3>2. \A j \in K : g[j] = Sum(part[j])
        OBVIOUS
      <3> HIDE DEF A, B, Sum
      <3> QED
        BY <1>0, <2>1, <3>1, <3>2
    <2>5. SumFunctionOnSet(g, T \cup {k}) = g[k] + SumFunctionOnSet(g, T)
      <3>1. IsFiniteSet(T) /\ k \notin T /\ \A x \in T \cup {k} : g[x] \in Int
        BY <2>4, FS_Subset
      <3> QED
        BY <3>1, SumAdd
    <2>6. SumFunctionOnSet(g, T) = Sum(B) /\ T \cup {k} \in SUBSET K
      BY <1>2
    <2>7. Sum(In(T \cup {k})) = SumFunctionOnSet(g, T \cup {k})
      <3> HIDE DEF A, B, In, Sum
      <3> QED
        BY <2>1, <2>3, <2>4, <2>5, <2>6
    <2> QED
      BY <2>6, <2>7
  <1>3. K \in X
    <2> HIDE DEF X
    <2> QED BY <1>1, <1>2, SetInduction
  <1>4. In(K) = S
    OBVIOUS
  <1> QED
    BY <1>3, <1>4

\* A sum over a set with a key for each element is the sum over the keys.
LEMMA SumKeys ==
    ASSUME NEW S, IsFiniteSet(S), NEW K, IsFiniteSet(K),
           NEW key, \A x \in S : key[x] \in K,
           \A x, y \in S : key[x] = key[y] => x = y,
           NEW f, \A x \in S : f[x] \in Int,
           NEW g, \A x \in S : g[key[x]] = f[x],
           \A k \in K : (\A x \in S : key[x] # k) => g[k] = 0
    PROVE  SumFunctionOnSet(f, S) = SumFunctionOnSet(g, K)
  <1> DEFINE part == [k \in K |-> {x \in S : key[x] = k}]
  <1>1. ASSUME NEW k \in K
        PROVE  g[k] = SumFunctionOnSet(f, part[k])
    <2>1. CASE \E x \in S : key[x] = k
      <3>1. PICK x \in S : key[x] = k
        BY <2>1
      <3>2. {y \in S : key[y] = k} = {x}
        BY <3>1
      <3>3. SumFunctionOnSet(f, {x}) = f[x]
        BY SumOne
      <3> QED
        BY <3>1, <3>2, <3>3
    <2>2. CASE \A x \in S : key[x] # k
      <3>1. {y \in S : key[y] = k} = {}
        BY <2>2
      <3> QED
        BY <2>2, <3>1, SumEmpty
    <2> QED
      BY <2>1, <2>2
  <1>2. \A k \in K : \A x : x \in part[k] <=> x \in S /\ key[x] = k
    OBVIOUS
  <1> HIDE DEF part
  <1> QED
    BY <1>1, <1>2, SumGroups

\* The value of coins, by groups.
LEMMA ValueGroups ==
    ASSUME NEW C, IsCoins(C), NEW K, IsFiniteSet(K),
           NEW key, \A c \in C : key[c] \in K,
           NEW part, \A k \in K : \A c : c \in part[k] <=> c \in C /\ key[c] = k,
           NEW g, \A k \in K : g[k] = Value(part[k])
    PROVE  Value(C) = SumFunctionOnSet(g, K)
  <1> DEFINE f == [c \in C |-> c.value]
  <1>1. IsFiniteSet(C) /\ \A c \in C : f[c] \in Int
    BY DEF IsCoins
  <1>2. Value(C) = SumFunctionOnSet(f, C) /\ \A k \in K : Value(part[k]) = SumFunctionOnSet(f, part[k])
    <2>1. \A k \in K : part[k] \in SUBSET C
      OBVIOUS
    <2> QED
      BY <2>1, ValueIn
  <1> HIDE DEF f
  <1>3. \A k \in K : g[k] = SumFunctionOnSet(f, part[k])
    BY <1>2
  <1>4. SumFunctionOnSet(f, C) = SumFunctionOnSet(g, K)
    BY <1>1, <1>3, SumGroups
  <1> QED
    BY <1>2, <1>4

-----------------------------------------------------------------------------
(* What create and validate let through, whatever the chunks say. *)

\* The least of some numbers.
LEMMA LeastNumber ==
    ASSUME NEW S \in SUBSET Nat, S # {}
    PROVE  \E n \in S : \A m \in S : n <= m
<1>1. PICK n \in S : \A m \in S : <<m, n>> \notin OpToRel(<, Nat)
  BY NatLessThanWellFounded, WFMin
<1>2. \A m \in S : ~(m < n)
  BY <1>1 DEF OpToRel
<1> QED
  BY <1>2

\* A branch goes from a transaction among the chunks to one.
LEMMA BranchEnds ==
    ASSUME NEW nodes, NEW branch \in Branches(nodes)
    PROVE  /\ branch = <<branch[1], branch[2]>>
           /\ branch[1] \in DOMAIN nodes
           /\ branch[2] \in ChildOutputs(nodes, branch[1])
           /\ ChildAt(nodes, branch) = nodes[branch[1]].children[branch[2]]
           /\ ChildAt(nodes, branch) \in DOMAIN nodes
<1>1. PICK t \in DOMAIN nodes : branch \in {t} \X ChildOutputs(nodes, t)
  BY DEF Branches
<1> QED
  BY <1>1 DEF ChildOutputs, ChildAt

\* The way that is one branch shorter.
Shorter(way, n) == [k \in 1 .. n - 1 |-> way[k]]

\* A way that is not empty continues a shorter one, to where its last branch leads.
LEMMA WayContinues ==
    ASSUME NEW nodes, NEW root, NEW n \in Nat \ {0}, NEW way \in WaysDown(nodes, root, n)
    PROVE  /\ way # <<>> /\ Len(way) = n /\ way[n] \in Branches(nodes)
           /\ Tip(nodes, root, way) = ChildAt(nodes, way[n])
           /\ Shorter(way, n) \in WaysDown(nodes, root, n - 1)
           /\ way[n][1] = Tip(nodes, root, Shorter(way, n))
<1> DEFINE B == Branches(nodes)
           less == Shorter(way, n)
<1>1. way \in [1 .. n -> B] /\ n \in 1 .. n
      /\ \A k \in 1 .. n : way[k][1] = IF k = 1 THEN root ELSE ChildAt(nodes, way[k - 1])
  BY DEF WaysDown
<1>2. way \in Seq(B) /\ Len(way) = n /\ way # <<>>
  <2>1. way \in Seq(B)
    BY <1>1
  <2>2. DOMAIN way = 1 .. Len(way) /\ Len(way) \in Nat
    BY <2>1, LenProperties
  <2>3. Len(way) = n
    BY <1>1, <2>2
  <2> QED
    BY <2>1, <2>3, EmptySeq
<1>3. less \in [1 .. n - 1 -> B] /\ less \in Seq(B) /\ Len(less) = n - 1
  <2>1. less \in [1 .. n - 1 -> B] /\ n - 1 \in Nat
    BY <1>1 DEF Shorter
  <2>2. less \in Seq(B)
    BY <2>1
  <2>3. DOMAIN less = 1 .. Len(less) /\ Len(less) \in Nat
    BY <2>2, LenProperties
  <2> QED
    BY <2>1, <2>2, <2>3
<1>4. less \in WaysDown(nodes, root, n - 1)
  <2>1. \A k \in 1 .. n - 1 : k \in 1 .. n /\ less[k] = way[k] /\ (k # 1 => k - 1 \in 1 .. n - 1)
    BY DEF Shorter
  <2>2. \A k \in 1 .. n - 1 : less[k][1] = IF k = 1 THEN root ELSE ChildAt(nodes, less[k - 1])
    BY <1>1, <2>1
  <2> QED
    BY <1>3, <2>2 DEF WaysDown
<1>5. way[n][1] = Tip(nodes, root, less)
  <2>1. CASE n = 1
    <3>1. less = <<>>
      BY <1>3, <2>1, EmptySeq
    <3> QED
      BY <1>1, <2>1, <3>1 DEF Tip
  <2>2. CASE n # 1
    <3>1. less # <<>> /\ n - 1 \in 1 .. n - 1 /\ less[n - 1] = way[n - 1]
      BY <1>3, <2>2, EmptySeq DEF Shorter
    <3> QED
      BY <1>1, <1>3, <2>2, <3>1 DEF Tip
  <2> QED
    BY <2>1, <2>2
<1> QED
  BY <1>1, <1>2, <1>4, <1>5 DEF Tip

\* There is one way of no branches.
LEMMA WayOfNone ==
    ASSUME NEW nodes, NEW root
    PROVE  WaysDown(nodes, root, 0) = {<<>>} /\ Tip(nodes, root, <<>>) = root
<1>1. ASSUME NEW way \in WaysDown(nodes, root, 0)
      PROVE  way = <<>>
  <2>1. way \in [1 .. 0 -> Branches(nodes)]
    BY DEF WaysDown
  <2> QED
    BY <2>1
<1>2. <<>> \in WaysDown(nodes, root, 0)
  <2>1. <<>> \in [1 .. 0 -> Branches(nodes)]
    BY EmptySeq
  <2> QED
    BY <2>1 DEF WaysDown
<1> QED
  BY <1>1, <1>2 DEF Tip

\* A way of the graph, with its length.
LEMMA InGraph ==
    ASSUME NEW nodes, NEW root, IsFiniteSet(DOMAIN nodes)
    PROVE  /\ \A n \in 0 .. Cardinality(DOMAIN nodes) :
                 WaysDown(nodes, root, n) \subseteq Graph(nodes, root)
           /\ \A way \in Graph(nodes, root) :
                 \E n \in Nat : way \in WaysDown(nodes, root, n) /\ n <= Cardinality(DOMAIN nodes)
BY FS_CardinalityType DEF Graph

\* Every prefix of a way is a node of the graph too, and every node is at a transaction.
LEMMA TipKnown ==
    ASSUME NEW nodes, NEW root \in DOMAIN nodes, IsFiniteSet(DOMAIN nodes),
           NEW way \in Graph(nodes, root)
    PROVE  Tip(nodes, root, way) \in DOMAIN nodes
<1>1. PICK n \in Nat : way \in WaysDown(nodes, root, n)
  BY InGraph
<1>2. CASE n = 0
  BY <1>1, <1>2, WayOfNone
<1>3. CASE n # 0
  <2>1. Tip(nodes, root, way) = ChildAt(nodes, way[n]) /\ way[n] \in Branches(nodes)
    BY <1>1, <1>3, WayContinues
  <2> QED
    BY <2>1, BranchEnds
<1> QED
  BY <1>2, <1>3

\* A branch back to the root could be followed for ever.
LEMMA NoBranchToRoot ==
    ASSUME NEW nodes, NEW root, IsFiniteSet(DOMAIN nodes),
           RootTxids(nodes) = {root}, BuildEnds(nodes, root),
           NEW branch \in Branches(nodes)
    PROVE  ChildAt(nodes, branch) # root
<1> SUFFICES ASSUME ChildAt(nodes, branch) = root PROVE FALSE
  OBVIOUS
<1>1. branch[1] = root
  <2>1. branch[1] \in DOMAIN nodes /\ HasChild(nodes[branch[1]], root)
    BY BranchEnds DEF ChildOutputs, HasChild
  <2> QED
    BY <2>1 DEF RootTxids
<1> DEFINE n == Cardinality(DOMAIN nodes)
           round == [k \in 1 .. n |-> branch]
<1>2. n \in Nat
  BY FS_CardinalityType
<1>3. round \in WaysDown(nodes, root, n)
  <2>1. \A k \in 1 .. n : round[k] = branch /\ (k # 1 => round[k - 1] = branch)
    BY <1>2
  <2>2. \A k \in 1 .. n : round[k][1] = IF k = 1 THEN root ELSE ChildAt(nodes, round[k - 1])
    BY <1>1, <2>1
  <2>3. round \in [1 .. n -> Branches(nodes)]
    OBVIOUS
  <2> HIDE DEF round
  <2> QED
    BY <2>2, <2>3 DEF WaysDown
<1> QED
  BY <1>3 DEF BuildEnds

\* What validate has found out about a branch it has come along.
LEMMA BranchSpent ==
    ASSUME NEW nodes, NEW t, ValidNode(nodes, t), NEW branch \in Branches(nodes), branch[1] = t
    PROVE  /\ Len(nodes[ChildAt(nodes, branch)].inputs) = 1
           /\ nodes[ChildAt(nodes, branch)].inputs[1] = branch
           /\ branch[2] \in DOMAIN nodes[t].outputs
           /\ OutputsSum(nodes[ChildAt(nodes, branch)]) = nodes[t].outputs[branch[2]]
BY BranchEnds DEF ValidNode

\* A transaction spends one output, so that only one way leads to it.
LEMMA OneWay ==
    ASSUME NEW nodes, NEW root, IsFiniteSet(DOMAIN nodes), root \in DOMAIN nodes,
           RootTxids(nodes) = {root}, BuildEnds(nodes, root), Validates(nodes, root)
    PROVE  \A p, q \in Graph(nodes, root) :
              Tip(nodes, root, p) = Tip(nodes, root, q) => p = q
<1> DEFINE Ways(n) == WaysDown(nodes, root, n)
           G == Graph(nodes, root)
           At(way) == Tip(nodes, root, way)
           Bad == {n \in Nat : \E p \in Ways(n), q \in G : p \in G /\ At(p) = At(q) /\ p # q}
<1>1. Bad = {}
  <2> SUFFICES ASSUME Bad # {} PROVE FALSE
    OBVIOUS
  <2>1. PICK n \in Bad : \A m \in Bad : n <= m
    BY LeastNumber
  <2>2. PICK p \in Ways(n), q \in G : p \in G /\ At(p) = At(q) /\ p # q
    BY <2>1
  <2>3. PICK m \in Nat : q \in Ways(m) /\ m <= Cardinality(DOMAIN nodes)
    BY <2>2, InGraph
  <2>4. n \in Nat
    BY <2>1
  <2>5. n # 0
    <3> SUFFICES ASSUME n = 0 PROVE FALSE
      OBVIOUS
    <3>1. p = <<>> /\ At(p) = root
      BY <2>2, WayOfNone
    <3>2. m # 0
      BY <2>2, <2>3, <3>1, WayOfNone
    <3>3. q[m] \in Branches(nodes) /\ ChildAt(nodes, q[m]) = root
      BY <2>2, <2>3, <3>1, <3>2, WayContinues
    <3> QED
      BY <3>3, NoBranchToRoot
  <2>6. m # 0
    <3> SUFFICES ASSUME m = 0 PROVE FALSE
      OBVIOUS
    <3>1. At(q) = root
      BY <2>3, WayOfNone
    <3>2. p[n] \in Branches(nodes) /\ ChildAt(nodes, p[n]) = root
      BY <2>2, <2>4, <2>5, <3>1, WayContinues
    <3> QED
      BY <3>2, NoBranchToRoot
  <2>7. /\ p[n] \in Branches(nodes) /\ At(p) = ChildAt(nodes, p[n])
        /\ Shorter(p, n) \in Ways(n - 1) /\ p[n][1] = At(Shorter(p, n))
    BY <2>2, <2>4, <2>5, WayContinues
  <2>8. /\ q[m] \in Branches(nodes) /\ At(q) = ChildAt(nodes, q[m])
        /\ Shorter(q, m) \in Ways(m - 1) /\ q[m][1] = At(Shorter(q, m))
    BY <2>3, <2>6, WayContinues
  <2>9. Shorter(p, n) \in G /\ Shorter(q, m) \in G
    <3>0. Cardinality(DOMAIN nodes) \in Nat
      BY FS_CardinalityType
    <3>1. PICK l \in Nat : p \in Ways(l) /\ l <= Cardinality(DOMAIN nodes)
      BY <2>2, InGraph
    <3>2. l = n
      <4>1. l # 0
        BY <2>2, <2>4, <2>5, <3>1, WayOfNone, WayContinues
      <4> QED
        BY <2>2, <2>4, <2>5, <3>1, <4>1, WayContinues
    <3> QED
      BY <2>3, <2>4, <2>5, <2>6, <2>7, <2>8, <3>0, <3>1, <3>2, InGraph
  <2>10. ValidNode(nodes, p[n][1]) /\ ValidNode(nodes, q[m][1])
    BY <2>7, <2>8, <2>9 DEF Validates
  <2>11. p[n] = q[m]
    <3>1. nodes[At(p)].inputs[1] = p[n]
      BY <2>7, <2>10, BranchSpent
    <3>2. nodes[At(q)].inputs[1] = q[m]
      BY <2>8, <2>10, BranchSpent
    <3> QED
      BY <2>2, <3>1, <3>2
  <2>12. Shorter(p, n) = Shorter(q, m)
    <3>1. n - 1 \in Nat /\ n - 1 \notin Bad
      BY <2>1, <2>4, <2>5
    <3> QED
      BY <2>7, <2>8, <2>9, <2>11, <3>1
  <2>13. p = q
    <3>1. p \in [1 .. n -> Branches(nodes)] /\ q \in [1 .. m -> Branches(nodes)]
      BY <2>2, <2>3 DEF WaysDown
    <3>2. n = m
      <4>1. DOMAIN Shorter(p, n) = 1 .. n - 1 /\ DOMAIN Shorter(q, m) = 1 .. m - 1
        BY DEF Shorter
      <4>2. 1 .. n - 1 = 1 .. m - 1
        BY <2>12, <4>1
      <4> QED
        BY <2>4, <2>5, <2>3, <2>6, <4>2
    <3>3. \A k \in 1 .. n : p[k] = q[k]
      <4>1. \A k \in 1 .. n - 1 : p[k] = Shorter(p, n)[k] /\ q[k] = Shorter(q, m)[k]
        BY <3>2 DEF Shorter
      <4>2. \A k \in 1 .. n : k = n \/ k \in 1 .. n - 1
        BY <2>4
      <4> QED
        BY <2>11, <2>12, <3>2, <4>1, <4>2
    <3> QED
      BY <3>1, <3>2, <3>3
  <2> QED
    BY <2>2, <2>13
<1> SUFFICES ASSUME NEW p \in G, NEW q \in G, At(p) = At(q), p # q PROVE FALSE
  OBVIOUS
<1>2. PICK n \in Nat : p \in Ways(n)
  BY InGraph
<1> QED
  BY <1>1, <1>2

\* The last branch of a way, that validate has looked at.
LEMMA LastBranch ==
    ASSUME NEW nodes, NEW root \in DOMAIN nodes, IsFiniteSet(DOMAIN nodes),
           Validates(nodes, root), NEW way \in Graph(nodes, root), Tip(nodes, root, way) # root
    PROVE  \E branch \in Branches(nodes) :
              ChildAt(nodes, branch) = Tip(nodes, root, way) /\ ValidNode(nodes, branch[1])
<1>1. PICK n \in Nat : way \in WaysDown(nodes, root, n) /\ n <= Cardinality(DOMAIN nodes)
  BY InGraph
<1>2. n # 0
  BY <1>1, WayOfNone
<1>3. /\ way[n] \in Branches(nodes) /\ Tip(nodes, root, way) = ChildAt(nodes, way[n])
      /\ Shorter(way, n) \in WaysDown(nodes, root, n - 1)
      /\ way[n][1] = Tip(nodes, root, Shorter(way, n))
  BY <1>1, <1>2, WayContinues
<1>4. Shorter(way, n) \in Graph(nodes, root)
  <2>1. Cardinality(DOMAIN nodes) \in Nat
    BY FS_CardinalityType
  <2> QED
    BY <1>1, <1>2, <1>3, <2>1, InGraph
<1> QED
  BY <1>3, <1>4 DEF Validates

\* With as many nodes as chunks, and no fewer chunks than transactions, the graph has
\* every transaction once.
LEMMA GraphIsWhole ==
    ASSUME NEW nodes, IsFiniteSet(DOMAIN nodes), NEW count \in Nat,
           Cardinality(DOMAIN nodes) <= count,
           NEW root, Creates(nodes, count, root), Validates(nodes, root)
    PROVE  /\ root \in DOMAIN nodes
           /\ count = Cardinality(DOMAIN nodes)
           /\ OneWayToEach(nodes, root)
<1> DEFINE G == Graph(nodes, root)
           tip == [way \in G |-> Tip(nodes, root, way)]
<1>1. root \in DOMAIN nodes /\ RootTxids(nodes) = {root} /\ BuildEnds(nodes, root)
      /\ Cardinality(G) = count
  BY DEF Creates, RootTxids
<1>2. tip \in Injection(G, DOMAIN nodes)
  <2>1. tip \in [G -> DOMAIN nodes]
    BY <1>1, TipKnown
  <2>2. \A p, q \in G : tip[p] = tip[q] => p = q
    BY <1>1, OneWay
  <2> HIDE DEF tip, G
  <2> QED
    BY <2>1, <2>2 DEF Injection, IsInjective
<1>3. Cardinality(G) = Cardinality(DOMAIN nodes) /\ tip \in Surjection(G, DOMAIN nodes)
  <2> HIDE DEF tip, G
  <2>1. IsFiniteSet(G) /\ Cardinality(G) <= Cardinality(DOMAIN nodes)
        /\ (Cardinality(G) = Cardinality(DOMAIN nodes) <=> tip \in Surjection(G, DOMAIN nodes))
    BY <1>2, FS_Injection
  <2>2. Cardinality(DOMAIN nodes) \in Nat
    BY FS_CardinalityType
  <2> QED
    BY <1>1, <2>1, <2>2
<1>4. OneWayToEach(nodes, root)
  <2> SUFFICES ASSUME NEW t \in DOMAIN nodes
               PROVE  \E way \in G : NodesOf(nodes, root, t) = {way}
    BY DEF OneWayToEach
  <2>1. PICK way \in G : tip[way] = t
    <3> HIDE DEF tip, G
    <3> QED
      BY <1>3 DEF Surjection
  <2>2. \A p \in G : Tip(nodes, root, p) = t => p = way
    BY <1>1, <2>1, OneWay
  <2> QED
    BY <2>1, <2>2 DEF NodesOf
<1> QED
  BY <1>1, <1>3, <1>4

\* Then the children that the chunks name are those that the transactions spend to.
LEMMA GraphIsSpent ==
    ASSUME NEW nodes, IsFiniteSet(DOMAIN nodes), NEW root \in DOMAIN nodes,
           Validates(nodes, root), OneWayToEach(nodes, root)
    PROVE  \A t \in DOMAIN nodes \ {root} :
              \E branch \in Branches(nodes) :
                 ChildAt(nodes, branch) = t /\ ValidNode(nodes, branch[1])
<1> SUFFICES ASSUME NEW t \in DOMAIN nodes, t # root
             PROVE  \E branch \in Branches(nodes) :
                       ChildAt(nodes, branch) = t /\ ValidNode(nodes, branch[1])
  OBVIOUS
<1>1. PICK way \in Graph(nodes, root) : Tip(nodes, root, way) = t
  BY DEF OneWayToEach, NodesOf
<1> QED
  BY <1>1, LastBranch

\* A list of chunks has no more transactions than chunks, and as many only if none is
\* there twice.
LEMMA ChunksAreNodes ==
    ASSUME NEW Chunk, NEW chunks \in Seq(Chunk)
    PROVE  LET nodes == ChunksByTxid(chunks)
           IN /\ IsFiniteSet(DOMAIN nodes)
              /\ Cardinality(DOMAIN nodes) <= Len(chunks)
              /\ Cardinality(DOMAIN nodes) = Len(chunks) =>
                    \A i, j \in DOMAIN chunks : chunks[i].txid = chunks[j].txid => i = j
<1> DEFINE I == 1 .. Len(chunks)
           T == DOMAIN ChunksByTxid(chunks)
           txid == [i \in I |-> chunks[i].txid]
<1>1. DOMAIN chunks = I /\ IsFiniteSet(I) /\ Cardinality(I) = Len(chunks) /\ Len(chunks) \in Nat
  <2>1. DOMAIN chunks = I /\ Len(chunks) \in Nat
    BY LenProperties
  <2> QED
    BY <2>1, FS_Interval
<1>2. T = {chunks[i].txid : i \in I}
  BY <1>1 DEF ChunksByTxid
<1>3. txid \in Surjection(I, T)
  <2>1. txid \in [I -> T] /\ \A t \in T : \E i \in I : txid[i] = t
    BY <1>2
  <2> QED
    BY <2>1 DEF Surjection
<1>4. /\ IsFiniteSet(T) /\ Cardinality(T) <= Cardinality(I)
      /\ (Cardinality(T) = Cardinality(I) <=> txid \in Injection(I, T))
  <2> HIDE DEF I, T, txid
  <2> QED
    BY <1>1, <1>3, FS_Surjection
<1>5. txid \in Injection(I, T) => \A i, j \in I : chunks[i].txid = chunks[j].txid => i = j
  <2> SUFFICES ASSUME txid \in Injection(I, T) PROVE \A i, j \in I : txid[i] = txid[j] => i = j
    OBVIOUS
  <2> HIDE DEF I, T, txid
  <2>1. DOMAIN txid = I
    BY DEF Injection
  <2> QED
    BY <2>1 DEF Injection, IsInjective
<1> QED
  BY <1>1, <1>4, <1>5

\* Whatever chunks come and whatever children they name, with duplicates, cycles and
\* shared children: if TxTree.create makes a graph of them that validate accepts,
\* no transaction came twice, each is one node, and the tree is the one that
\* the transactions themselves make by what they spend.
THEOREM AcceptedTreeIsWhole ==
    ASSUME NEW Chunk, NEW chunks \in Seq(Chunk), NEW Outpoint,
           \A i \in DOMAIN chunks : chunks[i].inputs \in Seq(Outpoint),
           NEW root, Creates(ChunksByTxid(chunks), Len(chunks), root),
           Validates(ChunksByTxid(chunks), root)
    PROVE  /\ \A i, j \in DOMAIN chunks : chunks[i].txid = chunks[j].txid => i = j
           /\ OneWayToEach(ChunksByTxid(chunks), root)
           /\ ChildrenSpend(ChunksByTxid(chunks), root)
<1> DEFINE nodes == ChunksByTxid(chunks)
<1>1. /\ IsFiniteSet(DOMAIN nodes) /\ Len(chunks) \in Nat
      /\ Cardinality(DOMAIN nodes) <= Len(chunks)
      /\ Cardinality(DOMAIN nodes) = Len(chunks) =>
            \A i, j \in DOMAIN chunks : chunks[i].txid = chunks[j].txid => i = j
  BY ChunksAreNodes, LenProperties
<1>2. \A t \in DOMAIN nodes : nodes[t].inputs \in Seq(Outpoint)
  <2> SUFFICES ASSUME NEW t \in DOMAIN nodes PROVE nodes[t].inputs \in Seq(Outpoint)
    OBVIOUS
  <2> DEFINE S == {i \in DOMAIN chunks : chunks[i].txid = t}
             IsLast(i) == /\ chunks[i].txid = t
                          /\ \A j \in DOMAIN chunks : j > i => chunks[j].txid # t
             last == CHOOSE i \in DOMAIN chunks : IsLast(i)
  <2>1. DOMAIN chunks = 1 .. Len(chunks)
    BY LenProperties
  <2>2. S # {}
    BY DEF ChunksByTxid
  <2>3. \E i \in DOMAIN chunks : IsLast(i)
    <3> DEFINE D == {Len(chunks) - i : i \in S}
    <3>1. D \in SUBSET Nat /\ D # {}
      BY <1>1, <2>1, <2>2
    <3>2. PICK d \in D : \A e \in D : d <= e
      <4> HIDE DEF D
      <4> QED
        BY <3>1, LeastNumber
    <3>3. PICK i \in S : d = Len(chunks) - i
      BY <3>2
    <3>4. \A j \in S : Len(chunks) - i <= Len(chunks) - j
      BY <3>2, <3>3
    <3>5. \A j \in S : j <= i
      BY <1>1, <2>1, <3>3, <3>4
    <3> QED
      BY <1>1, <2>1, <3>3, <3>5
  <2>4. last \in DOMAIN chunks
    <3> HIDE DEF IsLast
    <3> QED
      BY <2>3
  <2>5. nodes[t].inputs = chunks[last].inputs
    BY DEF ChunksByTxid
  <2> QED
    BY <2>4, <2>5
<1>3. root \in DOMAIN nodes /\ Len(chunks) = Cardinality(DOMAIN nodes) /\ OneWayToEach(nodes, root)
  <2> HIDE DEF nodes
  <2> QED
    BY <1>1, GraphIsWhole DEF nodes
<1>4. ChildrenSpend(nodes, root)
  <2> HIDE DEF nodes
  <2> SUFFICES ASSUME NEW t \in DOMAIN nodes, t # root
               PROVE  \E branch \in Branches(nodes) :
                         ChildAt(nodes, branch) = t /\ nodes[t].inputs = <<branch>>
    BY DEF ChildrenSpend
  <2>1. PICK branch \in Branches(nodes) :
             ChildAt(nodes, branch) = t /\ ValidNode(nodes, branch[1])
    BY <1>1, <1>3, GraphIsSpent DEF nodes
  <2>2. Len(nodes[t].inputs) = 1 /\ nodes[t].inputs[1] = branch
    BY <2>1, BranchSpent
  <2>3. nodes[t].inputs = <<branch>>
    <3>1. nodes[t].inputs \in Seq(Outpoint)
      BY <1>2
    <3> HIDE DEF nodes
    <3> QED
      BY <2>2, <3>1
  <2> QED
    BY <2>1, <2>3
<1> QED
  BY <1>1, <1>3, <1>4

\* Every transaction of an accepted tree was validated.
LEMMA AllValid ==
    ASSUME NEW nodes, NEW root, Validates(nodes, root), OneWayToEach(nodes, root)
    PROVE  \A t \in DOMAIN nodes : ValidNode(nodes, t)
<1> SUFFICES ASSUME NEW t \in DOMAIN nodes PROVE ValidNode(nodes, t)
  OBVIOUS
<1>1. PICK way \in Graph(nodes, root) : Tip(nodes, root, way) = t
  BY DEF OneWayToEach, NodesOf
<1> QED
  BY <1>1 DEF Validates

\* Amounts by output index.
OutputAmounts(outputs) == \E n \in Nat : outputs \in [0 .. n - 1 -> Nat]

\* A node has finitely many outputs, so their sum is a number.
LEMMA AmountsFinite ==
    ASSUME NEW outputs, OutputAmounts(outputs)
    PROVE  /\ IsFiniteSet(DOMAIN outputs)
           /\ \A i \in DOMAIN outputs : outputs[i] \in Nat
<1>1. PICK n \in Nat : outputs \in [0 .. n - 1 -> Nat]
  BY DEF OutputAmounts
<1>2. IsFiniteSet(0 .. n - 1)
  <2>1. 0 \in Int /\ n - 1 \in Int
    OBVIOUS
  <2> QED
    BY <2>1, FS_Interval
<1>3. DOMAIN outputs = 0 .. n - 1 /\ \A i \in 0 .. n - 1 : outputs[i] \in Nat
  BY <1>1
<1> QED
  BY <1>2, <1>3

\* Finitely many transactions have finitely many outputs.
LEMMA OutpointsFinite ==
    ASSUME NEW nodes, IsFiniteSet(DOMAIN nodes),
           \A t \in DOMAIN nodes : IsFiniteSet(DOMAIN nodes[t].outputs)
    PROVE  IsFiniteSet(Outpoints(nodes))
<1> DEFINE T == DOMAIN nodes
           Of(S) == UNION {{t} \X DOMAIN nodes[t].outputs : t \in S}
           X == {S \in SUBSET T : IsFiniteSet(Of(S))}
<1>1. {} \in X
  <2>1. Of({}) = {}
    OBVIOUS
  <2> QED
    BY <2>1, FS_EmptySet
<1>2. ASSUME NEW S \in SUBSET T, NEW t \in T \ S, S \in X
      PROVE  S \cup {t} \in X
  <2>1. Of(S \cup {t}) = Of(S) \cup ({t} \X DOMAIN nodes[t].outputs)
    OBVIOUS
  <2>2. IsFiniteSet({t} \X DOMAIN nodes[t].outputs)
    BY FS_Product, FS_Singleton
  <2>3. IsFiniteSet(Of(S))
    BY <1>2
  <2> DEFINE A == Of(S)
             B == {t} \X DOMAIN nodes[t].outputs
  <2>4. IsFiniteSet(A \cup B)
    <3>1. IsFiniteSet(A) /\ IsFiniteSet(B)
      BY <2>2, <2>3
    <3> HIDE DEF A, B
    <3> QED
      BY <3>1, FS_Union
  <2> QED
    BY <2>1, <2>4
<1>3. T \in X
  <2> HIDE DEF X
  <2> QED
    BY <1>1, <1>2, SetInduction
<1>4. Of(T) = Outpoints(nodes)
  BY DEF Outpoints
<1> QED
  BY <1>3, <1>4

\* What a transaction's outputs are worth, one by one.
LEMMA OutputsWorth ==
    ASSUME NEW nodes, NEW t \in DOMAIN nodes, OutputAmounts(nodes[t].outputs),
           NEW f, \A i \in DOMAIN nodes[t].outputs : f[<<t, i>>] = nodes[t].outputs[i]
    PROVE  SumFunctionOnSet(f, {t} \X DOMAIN nodes[t].outputs) = OutputsSum(nodes[t])
<1> DEFINE g == nodes[t].outputs
           D == DOMAIN g
           S == {t} \X D
           key == [o \in S |-> o[2]]
<1>1. IsFiniteSet(D) /\ \A i \in D : g[i] \in Nat
  BY AmountsFinite
<1>2. IsFiniteSet(S)
  BY <1>1, FS_Product, FS_Singleton
<1>3. \A o \in S : /\ o = <<t, key[o]>> /\ key[o] \in D
                   /\ f[o] = g[key[o]] /\ f[o] \in Int
  BY <1>1
<1>4. \A o, p \in S : key[o] = key[p] => o = p
  BY <1>3
<1>5. \A k \in D : \E o \in S : key[o] = k
  <2> SUFFICES ASSUME NEW k \in D PROVE <<t, k>> \in S /\ key[<<t, k>>] = k
    OBVIOUS
  <2> QED
    OBVIOUS
<1>6. SumFunctionOnSet(f, S) = SumFunctionOnSet(g, D)
  <2> HIDE DEF key, S, D, g
  <2> QED
    BY <1>1, <1>2, <1>3, <1>4, <1>5, SumKeys
<1> QED
  BY <1>6 DEF OutputsSum, SumFunction

\* The outputs that no transaction of an accepted vtxo tree spends are worth exactly
\* the output of the commitment transaction that the tree hangs from: its leaves, and
\* whatever a partial tree leaves out, share out the batch and create nothing.
THEOREM AcceptedTreeKeepsValue ==
    ASSUME NEW Chunk, NEW chunks \in Seq(Chunk),
           \A t \in DOMAIN ChunksByTxid(chunks) : OutputAmounts(ChunksByTxid(chunks)[t].outputs),
           NEW root, Creates(ChunksByTxid(chunks), Len(chunks), root),
           NEW commitment, ValidatesVtxoTxGraph(ChunksByTxid(chunks), root, commitment)
    PROVE  Worth(ChunksByTxid(chunks), UnspentOutputs(ChunksByTxid(chunks))) = commitment.outputs[0]
<1> DEFINE nodes == ChunksByTxid(chunks)
           T == DOMAIN nodes
           O == Outpoints(nodes)
           B == Branches(nodes)
           f == [o \in O |-> nodes[o[1]].outputs[o[2]]]
           g == [t \in T |-> OutputsSum(nodes[t])]
<1>1. /\ IsFiniteSet(T) /\ root \in T /\ OneWayToEach(nodes, root)
      /\ RootTxids(nodes) = {root} /\ BuildEnds(nodes, root) /\ Validates(nodes, root)
  <2>1. IsFiniteSet(T) /\ Cardinality(T) <= Len(chunks) /\ Len(chunks) \in Nat
    BY ChunksAreNodes, LenProperties
  <2>2. Creates(nodes, Len(chunks), root) /\ Validates(nodes, root)
    BY DEF ValidatesVtxoTxGraph
  <2> HIDE DEF nodes
  <2> QED
    BY <2>1, <2>2, GraphIsWhole DEF Creates
<1>2. OutputsSum(nodes[root]) = commitment.outputs[0]
  BY DEF ValidatesVtxoTxGraph
<1>3. \A t \in T : OutputAmounts(nodes[t].outputs)
  OBVIOUS
<1> HIDE DEF nodes
<1>4. \A t \in T : ValidNode(nodes, t)
  BY <1>1, AllValid
<1>5. \A t \in T : IsFiniteSet(DOMAIN nodes[t].outputs)
                   /\ \A i \in DOMAIN nodes[t].outputs : nodes[t].outputs[i] \in Nat
  BY <1>3, AmountsFinite
<1>6. IsFiniteSet(O)
  BY <1>1, <1>5, OutpointsFinite
<1>7. \A o \in O : o[1] \in T /\ o[2] \in DOMAIN nodes[o[1]].outputs /\ f[o] \in Int
  BY <1>5 DEF Outpoints
<1>8. \A t \in T : \A i \in DOMAIN nodes[t].outputs :
          <<t, i>> \in O /\ f[<<t, i>>] = nodes[t].outputs[i]
  BY DEF Outpoints
\* All outputs, by transaction.
<1>9. SumFunctionOnSet(f, O) = SumFunctionOnSet(g, T)
  <2> DEFINE key == [o \in O |-> o[1]]
             part == [t \in T |-> {t} \X DOMAIN nodes[t].outputs]
  <2>1. \A o \in O : key[o] \in T
    BY <1>7
  <2>2. \A t \in T : \A o : o \in part[t] <=> o \in O /\ key[o] = t
    <3> SUFFICES ASSUME NEW t \in T, NEW o PROVE o \in part[t] <=> o \in O /\ o[1] = t
      OBVIOUS
    <3> QED
      BY DEF Outpoints
  <2>3. \A t \in T : g[t] = SumFunctionOnSet(f, part[t])
    <3> SUFFICES ASSUME NEW t \in T
                 PROVE  OutputsSum(nodes[t]) = SumFunctionOnSet(f, {t} \X DOMAIN nodes[t].outputs)
      OBVIOUS
    <3> HIDE DEF f, T
    <3> QED
      BY <1>3, <1>8, OutputsWorth DEF T
  <2>4. \A o \in O : f[o] \in Int
    BY <1>7
  <2> HIDE DEF key, part, f, g, O, T
  <2> QED
    BY <1>1, <1>6, <2>1, <2>2, <2>3, <2>4, SumGroups
\* The spent ones, by the transaction that spends them.
<1>10. B \in SUBSET O /\ IsFiniteSet(B)
  <2>1. \A branch \in B : branch \in O
    <3> SUFFICES ASSUME NEW branch \in B PROVE branch \in O
      OBVIOUS
    <3>1. branch = <<branch[1], branch[2]>> /\ branch[1] \in T
      BY BranchEnds
    <3>2. branch[2] \in DOMAIN nodes[branch[1]].outputs
      BY <1>4, <3>1, BranchSpent
    <3> QED
      BY <1>8, <3>1, <3>2
  <2> HIDE DEF B, O
  <2> QED
    BY <1>6, <2>1, FS_Subset
<1>11. SumFunctionOnSet(f, B) = SumFunctionOnSet(g, T \ {root})
  <2> DEFINE key == [branch \in B |-> ChildAt(nodes, branch)]
  <2>1. \A branch \in B : key[branch] \in T \ {root}
    BY <1>1, BranchEnds, NoBranchToRoot
  <2>2. \A branch \in B : /\ nodes[key[branch]].inputs[1] = branch
                          /\ g[key[branch]] = f[branch]
    <3> SUFFICES ASSUME NEW branch \in B
                 PROVE  /\ nodes[ChildAt(nodes, branch)].inputs[1] = branch
                        /\ OutputsSum(nodes[ChildAt(nodes, branch)]) = f[branch]
      BY <2>1
    <3>1. branch[1] \in T /\ ValidNode(nodes, branch[1])
      BY <1>4, BranchEnds
    <3>2. /\ nodes[ChildAt(nodes, branch)].inputs[1] = branch
          /\ OutputsSum(nodes[ChildAt(nodes, branch)]) = nodes[branch[1]].outputs[branch[2]]
      BY <3>1, BranchSpent
    <3>3. f[branch] = nodes[branch[1]].outputs[branch[2]]
      BY <1>10
    <3> QED
      BY <3>2, <3>3
  <2>3. \A a, b \in B : key[a] = key[b] => a = b
    <3> HIDE DEF key
    <3> QED
      BY <2>2
  <2>4. \A t \in T \ {root} : \E branch \in B : key[branch] = t
    BY <1>1, GraphIsSpent
  <2>5. \A branch \in B : f[branch] \in Int
    BY <1>7, <1>10
  <2>6. IsFiniteSet(T \ {root})
    BY <1>1, FS_RemoveElement
  <2> DEFINE K == T \ {root}
  <2> HIDE DEF key, f, g, B, K
  <2>7. \A branch \in B : key[branch] \in K
    BY <2>1 DEF K
  <2>8. \A k \in K : (\A branch \in B : key[branch] # k) => g[k] = 0
    BY <2>4 DEF K
  <2>9. IsFiniteSet(K) /\ \A branch \in B : g[key[branch]] = f[branch]
    BY <2>2, <2>6 DEF K
  <2>10. SumFunctionOnSet(f, B) = SumFunctionOnSet(g, K)
    BY <1>10, <2>3, <2>5, <2>7, <2>8, <2>9, SumKeys
  <2> QED
    BY <2>10 DEF K
<1>12. \A t \in T : g[t] \in Int
  <2> SUFFICES ASSUME NEW t \in T PROVE OutputsSum(nodes[t]) \in Int
    OBVIOUS
  <2>1. SumFunctionOnSet(nodes[t].outputs, DOMAIN nodes[t].outputs) \in Int
    BY <1>5, SumType
  <2> QED
    BY <2>1 DEF OutputsSum, SumFunction
<1>13. SumFunctionOnSet(g, T) = g[root] + SumFunctionOnSet(g, T \ {root})
  <2> HIDE DEF g, T
  <2> QED
    BY <1>1, <1>12, SumRemove
<1>14. SumFunctionOnSet(f, O) = SumFunctionOnSet(f, O \ B) + SumFunctionOnSet(f, B)
  <2> DEFINE U == O \ B
  <2>1. IsFiniteSet(U) /\ U \cap B = {} /\ U \cup B = O
    BY <1>6, <1>10, FS_Subset
  <2>2. \A o \in U \cup B : f[o] \in Int
    BY <1>7, <1>10
  <2>3. SumFunctionOnSet(f, U \cup B) = SumFunctionOnSet(f, U) + SumFunctionOnSet(f, B)
    <3> HIDE DEF f, U, B, O
    <3> QED
      BY <1>10, <2>1, <2>2, SumUnion
  <2> QED
    BY <2>1, <2>3
<1>15. SumFunctionOnSet(f, O \ B) \in Int /\ SumFunctionOnSet(f, B) \in Int
  <2>1. IsFiniteSet(O \ B) /\ \A o \in (O \ B) \cup B : f[o] \in Int
    BY <1>6, <1>7, <1>10, FS_Subset
  <2> HIDE DEF f, O, B
  <2> QED
    BY <1>10, <2>1, SumType
<1>16. SumFunctionOnSet(f, O \ B) = g[root]
  <2>1. g[root] \in Int
    BY <1>1, <1>12
  <2> DEFINE u == SumFunctionOnSet(f, O \ B)
             b == SumFunctionOnSet(f, B)
             r == g[root]
  <2>2. u + b = r + b /\ u \in Int /\ b \in Int /\ r \in Int
    BY <1>9, <1>11, <1>13, <1>14, <1>15, <2>1
  <2> HIDE DEF u, b, r
  <2>3. u = r
    BY <2>2
  <2> QED
    BY <2>3 DEF u, r
<1>17. Worth(nodes, UnspentOutputs(nodes)) = SumFunctionOnSet(f, O \ B)
  <2> DEFINE U == O \ B
             h == [o \in U |-> nodes[o[1]].outputs[o[2]]]
  <2>1. IsFiniteSet(U) /\ \A o \in U : h[o] = f[o]
    BY <1>6, FS_Subset
  <2>2. SumFunctionOnSet(h, U) = SumFunctionOnSet(f, U)
    <3> HIDE DEF h, U, f
    <3> QED
      BY <2>1, SumSame
  <2>3. UnspentOutputs(nodes) = U /\ DOMAIN h = U
    BY DEF UnspentOutputs
  <2> QED
    BY <2>2, <2>3 DEF Worth, SumFunction
<1> QED
  BY <1>1, <1>2, <1>16, <1>17 DEF nodes
==============================================================================
