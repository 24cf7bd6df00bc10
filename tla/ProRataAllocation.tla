--------------------------- MODULE ProRataAllocation ---------------------------
(****************************************************************************)
(* allocate_pro_rata of prsm/settlement/emission_epoch.py: the pot of an    *)
(* epoch divided among providers in proportion to their settled value by    *)
(* largest remainders, again without those who would get nothing, until     *)
(* everybody left gets something.  A turn of the loop is a step.            *)
(****************************************************************************)
EXTENDS Naturals, FiniteSets, FiniteSetsExt

CONSTANTS Providers,    \* account addresses, as the numbers they are sorted by
          MaxWeight,    \* bound: settled value of a provider
          MaxPot        \* bound: the pot

ASSUME AllocationAssumption ==
    /\ Providers \subseteq Nat
    /\ IsFiniteSet(Providers)
    /\ MaxWeight \in Nat
    /\ MaxPot \in Nat

VARIABLES weights, pot,
          live,     \* who still takes part
          shares,   \* the result of the last turn
          done

vars == <<weights, pot, live, shares, done>>

Zero == [a \in Providers |-> 0]
Total(f, S) == MapThenSumSet(LAMBDA a : f[a], S)

TypeOK ==
    /\ live \subseteq Providers
    /\ shares \in [Providers -> 0 .. pot]
    /\ done \in BOOLEAN

Init ==
    /\ weights \in [Providers -> 0 .. MaxWeight]
    /\ pot \in 0 .. MaxPot
    /\ live = {a \in Providers : weights[a] > 0}
    /\ shares = Zero
    /\ done = (live = {} \/ pot = 0)

(* Defect: divides first and multiplies then. *)
BaseTruncated(a) == weights[a] * (pot \div Total(weights, live))

Base(a) == (pot * weights[a]) \div Total(weights, live)
Remainder(a) == (pot * weights[a]) % Total(weights, live)
Leftover == pot - MapThenSumSet(Base, live)

(* How many are sorted before a: larger remainder, then smaller account. *)
Rank(a) == Cardinality({b \in live : \/ Remainder(b) > Remainder(a)
                                     \/ Remainder(b) = Remainder(a) /\ b < a})

(* Defect: one unit is never handed out. *)
ShareShort(a) == Base(a) + (IF Rank(a) + 1 < Leftover THEN 1 ELSE 0)
(* Defect: the smallest remainders are served first. *)
ShareReversed(a) ==
    Base(a) + (IF Cardinality(live) - 1 - Rank(a) < Leftover THEN 1 ELSE 0)

Share(a) == Base(a) + (IF Rank(a) < Leftover THEN 1 ELSE 0)

(* Defect: only an empty division ends the loop. *)
TurnForever ==
    /\ ~done
    /\ shares' = [a \in Providers |-> IF a \in live THEN Share(a) ELSE 0]
    /\ live' = {a \in live : Share(a) > 0}
    /\ done' = (live' = {})
    /\ UNCHANGED <<weights, pot>>

Turn ==
    /\ ~done
    /\ shares' = [a \in Providers |-> IF a \in live THEN Share(a) ELSE 0]
    /\ live' = {a \in live : Share(a) > 0}
    /\ done' = (live' \in {live, {}})
    /\ UNCHANGED <<weights, pot>>

Spec == Init /\ [][Turn]_vars /\ WF_vars(Turn)

--------------------------------------------------------------------------------
(* The entitlements of a published epoch sum to the pot exactly and all are *)
(* claimable, so that no claim meets EpochOverdrawn and nothing sits in the *)
(* reserve for ever (the assertion at the end of allocate_pro_rata).        *)
SpendsThePot ==
    done /\ pot > 0 /\ Total(weights, Providers) > 0 =>
        /\ Total(shares, Providers) = pot
        /\ \A a \in live : shares[a] > 0

(* Everybody who is paid gets the exact proportion among the paid, to less  *)
(* than one unit.                                                           *)
WithinOneUnit ==
    done => \A a \in live :
        LET exact == pot * weights[a]
            all == Total(weights, live)
        IN  /\ shares[a] * all < exact + all
            /\ exact < shares[a] * all + all

(* More settled value never earns less, also when the lightest providers    *)
(* are dropped and their part is divided again.                             *)
MoreWorkNoLess ==
    done => \A a, b \in Providers :
        weights[a] > weights[b] => shares[a] >= shares[b]

(* Dropping the lightest never takes from the others what they had earned   *)
(* in whole units.                                                          *)
WholeUnitsKept ==
    done => \A a \in Providers :
        weights[a] > 0 =>
            shares[a] >= (pot * weights[a]) \div Total(weights, Providers)

(* The loop ends: somebody is dropped in every turn but the last. *)
Terminates == <>done
================================================================================
