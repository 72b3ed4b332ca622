---------------------------- MODULE CoinSelection ----------------------------
(***************************************************************************)
(* selectCoins (src/src/wallet/onchain.ts) and selectVirtualCoins          *)
(* (src/src/wallet/wallet.ts): sort the coins, take them one by one until  *)
(* they are enough.  Coins that tie in the order may come either way, so   *)
(* that a selection is a set of possible results.                          *)
(***************************************************************************)
EXTENDS Integers, FiniteSetsExt, Functions

Value(coins) == SumFunction([c \in coins |-> c.value])

\* The shortest prefixes of coins, in an order that Before allows, that are
\* Enough; all of the coins if no prefix is.
Selection(coins, Before(_, _), Enough(_)) ==
    {S \in SUBSET coins :
        /\ \A a \in S, b \in coins \ S : ~Before(b, a)
        /\ S = coins \/ Enough(S)
        /\ S # {} => \E last \in S :
              /\ \A a \in S : ~Before(last, a)
              /\ ~Enough(S \ {last})}

LargerFirst(a, b) == a.value > b.value

\* Faulty: small coins first.
SmallerFirst(coins, target, forceChange) ==
    Selection(coins, LAMBDA a, b : a.value < b.value,
              LAMBDA S : Value(S) > target \/ (~forceChange /\ Value(S) = target))

\* Faulty: the loop ends on an exact match, change or not.
SelectCoinsUnforced(coins, target, forceChange) ==
    Selection(coins, LargerFirst, LAMBDA S : Value(S) >= target)

SelectCoins(coins, target, forceChange) ==
    Selection(coins, LargerFirst,
              LAMBDA S : Value(S) > target \/ (~forceChange /\ Value(S) = target))

\* A missing expiry is later than any.
Expires(c, d) ==
    c.expiry # 0 /\ (d.expiry = 0 \/ c.expiry < d.expiry)

SoonerFirst(a, b) ==
    Expires(a, b) \/ (a.expiry = b.expiry /\ a.value > b.value)

\* Faulty: a missing expiry is 0, sooner than any.
SelectMissingFirst(coins, target) ==
    Selection(coins,
              LAMBDA a, b : a.expiry < b.expiry \/ (a.expiry = b.expiry /\ a.value > b.value),
              LAMBDA S : Value(S) >= target)

SelectVirtualCoins(coins, target) ==
    Selection(coins, SoonerFirst, LAMBDA S : Value(S) >= target)
==============================================================================
