--------------------------- MODULE OperatorRewardPool ---------------------------
(****************************************************************************)
(* contracts/OperatorRewardPool.sol: the pool that emissions are paid into, *)
(* the epochs of entitlements published against it, and the claims.         *)
(*                                                                          *)
(* A Merkle root is the function of the amounts under it (0: no leaf), so a *)
(* proof verifies for exactly that amount.  Nothing in the contract ties    *)
(* the leaves to totalAmount: here the publisher chooses both.              *)
(****************************************************************************)
EXTENDS Naturals, FiniteSetsExt

CONSTANTS
    Accounts,         \* earners
    EpochIds,
    Publishers,       \* keys the owner may make rootPublisher
    MIN_CLAIM_WINDOW,
    MaxFunds,         \* bound: tokens that ever reach the pool
    MaxTime           \* bound: block.timestamp

ASSUME PoolAssumption ==
    /\ EpochIds \subseteq Nat \ {0}
    /\ MIN_CLAIM_WINDOW \in Nat
    /\ MaxFunds \in Nat
    /\ MaxTime \in Nat

VARIABLES
    epochs,           \* epochId -> Epoch
    hasClaimed,       \* epochId -> the accounts that claimed
    totalReserved,
    paused,
    rootPublisher,
    balance,          \* ftns.balanceOf(pool)
    funded,           \* all that was ever paid in
    now,
    lateClaimed       \* observer: all that was claimed from reclaimed epochs

poolVars == <<epochs, hasClaimed, totalReserved, paused, rootPublisher, balance,
              funded, now, lateClaimed>>

Amounts == 0 .. MaxFunds
Epoch == [leaves : [Accounts -> Amounts], totalAmount : Amounts,
          claimedAmount : Amounts, publishedAt : Nat, reclaimed : BOOLEAN]
NoEpoch == [leaves |-> [a \in Accounts |-> 0], totalAmount |-> 0,
            claimedAmount |-> 0, publishedAt |-> 0, reclaimed |-> FALSE]

PoolTypeOK ==
    /\ epochs \in [EpochIds -> Epoch]
    /\ hasClaimed \in [EpochIds -> SUBSET Accounts]
    /\ totalReserved \in Nat
    /\ paused \in BOOLEAN
    /\ rootPublisher \in Publishers
    /\ balance \in Nat
    /\ funded \in Amounts
    /\ now \in Nat \ {0}
    /\ lateClaimed \in Nat

PoolInit ==
    /\ epochs = [id \in EpochIds |-> NoEpoch]
    /\ hasClaimed = [id \in EpochIds |-> {}]
    /\ totalReserved = 0
    /\ paused = FALSE
    /\ rootPublisher \in Publishers
    /\ balance = 0
    /\ funded = 0
    /\ now = 1
    /\ lateClaimed = 0

Published(id) == epochs[id].publishedAt # 0
Remaining(id) == epochs[id].totalAmount - epochs[id].claimedAmount

(* Defect: the gate forgets what earlier epochs still owe. *)
CoveredAlone(total) == balance >= total

(* The solvency gate: the uncommitted balance covers the epoch in full. *)
Covered(total) == balance >= totalReserved + total

Publishable(p, id, total) ==
    /\ p = rootPublisher
    /\ ~paused
    /\ ~Published(id)
    /\ total > 0
    /\ Covered(total)

PublishEpoch(p, id, leaves, total) ==
    /\ Publishable(p, id, total)
    /\ epochs' = [epochs EXCEPT ![id] =
            [leaves |-> leaves, totalAmount |-> total, claimedAmount |-> 0,
             publishedAt |-> now, reclaimed |-> FALSE]]
    /\ totalReserved' = totalReserved + total
    /\ UNCHANGED <<hasClaimed, paused, rootPublisher, balance, funded, now,
                   lateClaimed>>

(* What an earner can still ask for. *)
Owed(id, a) ==
    /\ Published(id)
    /\ a \notin hasClaimed[id]
    /\ epochs[id].leaves[a] > 0
    /\ epochs[id].leaves[a] <= Remaining(id)

(* totalReserved -= amount and the transfer revert rather than go below     *)
(* zero.  That the epoch may have been reclaimed is not looked at.          *)
Claim(id, a) ==
    LET amount == epochs[id].leaves[a]
    IN  /\ ~paused
        /\ Owed(id, a)
        /\ amount <= totalReserved
        /\ amount <= balance
        /\ hasClaimed' = [hasClaimed EXCEPT ![id] = @ \cup {a}]
        /\ epochs' = [epochs EXCEPT ![id].claimedAmount = @ + amount]
        /\ totalReserved' = totalReserved - amount
        /\ balance' = balance - amount
        /\ lateClaimed' = IF epochs[id].reclaimed THEN lateClaimed + amount
                          ELSE lateClaimed
        /\ UNCHANGED <<paused, rootPublisher, funded, now>>

SetRootPublisher(p) ==
    /\ rootPublisher' = p
    /\ UNCHANGED <<epochs, hasClaimed, totalReserved, paused, balance, funded, now,
                   lateClaimed>>

SetPaused(p) ==
    /\ paused' = p
    /\ UNCHANGED <<epochs, hasClaimed, totalReserved, rootPublisher, balance, funded,
                   now, lateClaimed>>

(* Defect: any amount can be swept while there is a surplus. *)
SweepAll(amount) ==
    /\ balance > totalReserved
    /\ balance' = balance - amount
    /\ UNCHANGED <<epochs, hasClaimed, totalReserved, paused, rootPublisher, funded,
                   now, lateClaimed>>

SweepSurplus(amount) ==
    /\ balance > totalReserved
    /\ amount <= balance - totalReserved
    /\ balance' = balance - amount
    /\ UNCHANGED <<epochs, hasClaimed, totalReserved, paused, rootPublisher, funded,
                   now, lateClaimed>>

(* Defect: an epoch can be reclaimed again. *)
ReclaimAgain(id) ==
    /\ Published(id)
    /\ now >= epochs[id].publishedAt + MIN_CLAIM_WINDOW
    /\ Remaining(id) <= totalReserved
    /\ epochs' = [epochs EXCEPT ![id].reclaimed = TRUE]
    /\ totalReserved' = totalReserved - Remaining(id)
    /\ UNCHANGED <<hasClaimed, paused, rootPublisher, balance, funded, now,
                   lateClaimed>>

ReclaimUnclaimed(id) ==
    /\ Published(id)
    /\ ~epochs[id].reclaimed
    /\ now >= epochs[id].publishedAt + MIN_CLAIM_WINDOW
    /\ Remaining(id) <= totalReserved
    /\ epochs' = [epochs EXCEPT ![id].reclaimed = TRUE]
    /\ totalReserved' = totalReserved - Remaining(id)
    /\ UNCHANGED <<hasClaimed, paused, rootPublisher, balance, funded, now,
                   lateClaimed>>

(* FTNS arrives, from CompensationDistributor or from anybody. *)
Fund(amount) ==
    /\ amount > 0
    /\ funded + amount <= MaxFunds
    /\ funded' = funded + amount
    /\ balance' = balance + amount
    /\ UNCHANGED <<epochs, hasClaimed, totalReserved, paused, rootPublisher, now,
                   lateClaimed>>

AdvanceTime ==
    /\ now < MaxTime
    /\ now' = now + 1
    /\ UNCHANGED <<epochs, hasClaimed, totalReserved, paused, rootPublisher, balance,
                   funded, lateClaimed>>

(* Everything but a publication. *)
PoolStep ==
    \/ \E id \in EpochIds, a \in Accounts : Claim(id, a)
    \/ \E p \in Publishers : SetRootPublisher(p)
    \/ \E p \in BOOLEAN : SetPaused(p)
    \/ \E amount \in Amounts : SweepSurplus(amount) \/ Fund(amount)
    \/ \E id \in EpochIds : ReclaimUnclaimed(id)
    \/ AdvanceTime

PoolNext ==
    \/ PoolStep
    \/ \E p \in Publishers, id \in EpochIds, leaves \in [Accounts -> Amounts],
          total \in Amounts : PublishEpoch(p, id, leaves, total)

PoolSpec == PoolInit /\ [][PoolNext]_poolVars

--------------------------------------------------------------------------------
(****************************************************************************)
(* Properties                                                               *)
(****************************************************************************)

(* The pool never promises more than it holds: publications, claims, sweeps *)
(* and reclaims in any order leave the outstanding liability covered (the   *)
(* solvency gate of publishEpoch with sweepSurplus and reclaimUnclaimed).   *)
Solvent == totalReserved <= balance

(* "An earner's claim can never fail for lack of funds" (contract header):  *)
(* whatever an epoch that was not reclaimed still owes is within the        *)
(* reserve that claim() subtracts it from.                                  *)
ClaimsFunded ==
    \A id \in EpochIds, a \in Accounts :
        Owed(id, a) /\ ~epochs[id].reclaimed => epochs[id].leaves[a] <= totalReserved

(* The reserve falls short of what the open epochs have not paid out by     *)
(* exactly what was claimed from reclaimed ones, so a claim, a reclaim and  *)
(* a publication agree about it otherwise (totalReserved's comment:         *)
(* published but unclaimed across all epochs).                              *)
ReserveIsOwed ==
    totalReserved + lateClaimed =
        MapThenSumSet(Remaining, {id \in EpochIds :
                                    Published(id) /\ ~epochs[id].reclaimed})
================================================================================
