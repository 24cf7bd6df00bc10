------------------------------- MODULE StakeBond -------------------------------
(****************************************************************************)
(* contracts/contracts/StakeBond.sol: providers bond FTNS, a slasher takes  *)
(* a rate of the stake, and a provider leaves through UNBONDING.  The       *)
(* unbonding floors read the registry's public views live, which is why     *)
(* this module extends the registry's.  The slasher is the registry (set    *)
(* in the constructor); StorageSlashing may be wired once as a second one.  *)
(* bonded_at_unix decides nothing and is left out.                          *)
(****************************************************************************)
EXTENDS BatchSettlementRegistry

CONSTANTS
    BondAmounts,       \* FTNS amounts a provider may bond
    SlashRates,        \* tierSlashRateBps a provider may claim
    UnbondDelays,      \* MIN_UNBOND_DELAY_SECONDS..MAX_UNBOND_DELAY_SECONDS
    StandardStake,     \* 5_000 FTNS: the standard tier's threshold
    CriticalStake,     \* 50_000 FTNS: the critical tier's threshold
    ReserveWallets,    \* contracts the foundation's reserve may be sent to
    StorageSlashers,   \* candidates for the storage slasher
    MaxBonded          \* bound: FTNS the bond contract ever holds

BPS == 10000
CHALLENGER_BOUNTY_BPS == 7000

ASSUME StakeAssumption ==
    /\ BondAmounts \subseteq Nat
    /\ SlashRates \subseteq Nat
    /\ UnbondDelays \subseteq Nat
    /\ UnbondDelays # {}
    /\ StandardStake \in Nat
    /\ CriticalStake \in Nat
    /\ StandardStake <= CriticalStake
    /\ NoContract \notin ReserveWallets \cup StorageSlashers
    /\ MaxBonded \in Nat

StakeStatus == {"NONE", "BONDED", "UNBONDING", "WITHDRAWN"}
Stake == [amount : Nat, unbond_eligible_at : Nat, status : StakeStatus,
          tier_slash_rate_bps : 0 .. BPS]
EmptyStake == [amount |-> 0, unbond_eligible_at |-> 0, status |-> "NONE",
               tier_slash_rate_bps |-> 0]

VARIABLES
    stakes,                    \* provider -> Stake
    slashedBountyPayable,      \* account -> claimable bounty
    foundationReserveBalance,
    foundationReserveWallet,   \* NoContract until the owner sets it
    storageSlasher,            \* NoContract until wired, once
    unbondDelaySeconds,
    bondPaused,
    bondHoldings               \* FTNS the contract's address holds

stakeVars == <<stakes, slashedBountyPayable, foundationReserveBalance,
               foundationReserveWallet, storageSlasher, unbondDelaySeconds,
               bondPaused, bondHoldings>>

StakeTypeOK ==
    /\ stakes \in [Providers -> Stake]
    /\ slashedBountyPayable \in [Accounts -> Nat]
    /\ foundationReserveBalance \in Nat
    /\ foundationReserveWallet \in ReserveWallets \cup {NoContract}
    /\ storageSlasher \in StorageSlashers \cup {NoContract}
    /\ unbondDelaySeconds \in UnbondDelays
    /\ bondPaused \in BOOLEAN
    /\ bondHoldings \in Int

StakeInit ==
    /\ stakes = [p \in Providers |-> EmptyStake]
    /\ slashedBountyPayable = [a \in Accounts |-> 0]
    /\ foundationReserveBalance = 0
    /\ foundationReserveWallet = NoContract
    /\ storageSlasher = NoContract
    /\ unbondDelaySeconds \in UnbondDelays
    /\ bondPaused = FALSE
    /\ bondHoldings = 0

--------------------------------------------------------------------------------
(* Defect: no floor on the rate. *)
MinSlashRateForAmountNone(amount) == 0

(* The least slash rate a bond of this size must carry. *)
MinSlashRateForAmount(amount) ==
    IF amount >= CriticalStake THEN BPS
    ELSE IF amount >= StandardStake THEN BPS \div 2
    ELSE 0

Bond(p, amount, rate) ==
    /\ ~bondPaused
    /\ amount > 0
    /\ rate <= BPS
    /\ rate >= MinSlashRateForAmount(amount)
    /\ stakes[p].status \in {"NONE", "WITHDRAWN"}
    /\ bondHoldings + amount <= MaxBonded
    /\ stakes' = [stakes EXCEPT ![p] =
            [amount |-> amount, unbond_eligible_at |-> 0, status |-> "BONDED",
             tier_slash_rate_bps |-> rate]]
    /\ bondHoldings' = bondHoldings + amount
    /\ UNCHANGED <<slashedBountyPayable, foundationReserveBalance,
                   foundationReserveWallet, storageSlasher, unbondDelaySeconds,
                   bondPaused>>

(* The tracked wall-clock expiry of p, extended by the pauses completed     *)
(* since it was recorded.                                                   *)
PendingExpiryFloor(p) ==
    IF totalPausedSeconds > lastPendingBatchPausedAtAccrual[p]
    THEN lastPendingBatchExpiry[p]
           + (totalPausedSeconds - lastPendingBatchPausedAtAccrual[p])
    ELSE lastPendingBatchExpiry[p]

Larger(a, b) == IF a > b THEN a ELSE b

RequestUnbond(p) ==
    LET localFloor == now + unbondDelaySeconds
        slasherFloor == now + challengeWindowSeconds
    IN  /\ ~bondPaused
        /\ stakes[p].status = "BONDED"
        /\ stakes' = [stakes EXCEPT
              ![p].status = "UNBONDING",
              ![p].unbond_eligible_at =
                  Larger(Larger(localFloor, slasherFloor), PendingExpiryFloor(p))]
        /\ UNCHANGED <<slashedBountyPayable, foundationReserveBalance,
                       foundationReserveWallet, storageSlasher,
                       unbondDelaySeconds, bondPaused, bondHoldings>>

(* Defect: only the floor taken at requestUnbond counts. *)
WithdrawStakeOneShot(p) ==
    /\ ~bondPaused
    /\ stakes[p].status = "UNBONDING"
    /\ now >= stakes[p].unbond_eligible_at
    /\ stakes' = [stakes EXCEPT ![p].amount = 0, ![p].status = "WITHDRAWN"]
    /\ bondHoldings' = bondHoldings - stakes[p].amount
    /\ UNCHANGED <<slashedBountyPayable, foundationReserveBalance,
                   foundationReserveWallet, storageSlasher, unbondDelaySeconds,
                   bondPaused>>

(* The floor is read again: batches committed after requestUnbond count. *)
WithdrawStake(p) ==
    /\ ~bondPaused
    /\ stakes[p].status = "UNBONDING"
    /\ now >= stakes[p].unbond_eligible_at
    /\ now >= PendingExpiryFloor(p)
    /\ stakes' = [stakes EXCEPT ![p].amount = 0, ![p].status = "WITHDRAWN"]
    /\ bondHoldings' = bondHoldings - stakes[p].amount
    /\ UNCHANGED <<slashedBountyPayable, foundationReserveBalance,
                   foundationReserveWallet, storageSlasher, unbondDelaySeconds,
                   bondPaused>>

--------------------------------------------------------------------------------
SlashAmount(p) == (stakes[p].amount * stakes[p].tier_slash_rate_bps) \div BPS

(* slash() reverts otherwise: paused, NotSlashable or NothingToSlash. *)
Slashable(p) ==
    /\ ~bondPaused
    /\ stakes[p].status \in {"BONDED", "UNBONDING"}
    /\ SlashAmount(p) > 0

(* Defect: the foundation is credited as if nobody earned a bounty. *)
FoundationShareWhole(p, challenger) == SlashAmount(p)

(* Whom a slasher may name as the challenger: the zero address too. *)
Credited == Accounts \cup {NoContract}

(* A provider that challenges itself earns no bounty, nor does nobody. *)
NoBounty(p, challenger) == challenger \in {p, NoContract}

ChallengerShare(p, challenger) ==
    IF NoBounty(p, challenger) THEN 0
    ELSE (SlashAmount(p) * CHALLENGER_BOUNTY_BPS) \div BPS

FoundationShare(p, challenger) == SlashAmount(p) - ChallengerShare(p, challenger)

Slash(p, challenger) ==
    /\ Slashable(p)
    /\ stakes' = [stakes EXCEPT ![p].amount = @ - SlashAmount(p)]
    /\ slashedBountyPayable' =
            IF NoBounty(p, challenger) THEN slashedBountyPayable
            ELSE [slashedBountyPayable EXCEPT ![challenger] =
                    @ + ChallengerShare(p, challenger)]
    /\ foundationReserveBalance' =
            foundationReserveBalance + FoundationShare(p, challenger)
    /\ UNCHANGED <<foundationReserveWallet, storageSlasher, unbondDelaySeconds,
                   bondPaused, bondHoldings>>

ClaimBounty(a) ==
    /\ ~bondPaused
    /\ slashedBountyPayable[a] > 0
    /\ slashedBountyPayable' = [slashedBountyPayable EXCEPT ![a] = 0]
    /\ bondHoldings' = bondHoldings - slashedBountyPayable[a]
    /\ UNCHANGED <<stakes, foundationReserveBalance, foundationReserveWallet,
                   storageSlasher, unbondDelaySeconds, bondPaused>>

DrainFoundationReserve ==
    /\ ~bondPaused
    /\ foundationReserveWallet # NoContract
    /\ foundationReserveBalance > 0
    /\ foundationReserveBalance' = 0
    /\ bondHoldings' = bondHoldings - foundationReserveBalance
    /\ UNCHANGED <<stakes, slashedBountyPayable, foundationReserveWallet,
                   storageSlasher, unbondDelaySeconds, bondPaused>>

--------------------------------------------------------------------------------
SetUnbondDelay(d) ==
    /\ d # unbondDelaySeconds
    /\ unbondDelaySeconds' = d
    /\ UNCHANGED <<stakes, slashedBountyPayable, foundationReserveBalance,
                   foundationReserveWallet, storageSlasher, bondPaused,
                   bondHoldings>>

SetStorageSlasherOnce(newSlasher) ==
    /\ storageSlasher = NoContract
    /\ storageSlasher' = newSlasher
    /\ UNCHANGED <<stakes, slashedBountyPayable, foundationReserveBalance,
                   foundationReserveWallet, unbondDelaySeconds, bondPaused,
                   bondHoldings>>

SetFoundationReserveWallet(newWallet) ==
    /\ ~bondPaused
    /\ newWallet # foundationReserveWallet
    /\ foundationReserveWallet' = newWallet
    /\ UNCHANGED <<stakes, slashedBountyPayable, foundationReserveBalance,
                   storageSlasher, unbondDelaySeconds, bondPaused, bondHoldings>>

PauseBond ==
    /\ ~bondPaused
    /\ bondPaused' = TRUE
    /\ UNCHANGED <<stakes, slashedBountyPayable, foundationReserveBalance,
                   foundationReserveWallet, storageSlasher, unbondDelaySeconds,
                   bondHoldings>>

UnpauseBond ==
    /\ bondPaused
    /\ bondPaused' = FALSE
    /\ UNCHANGED <<stakes, slashedBountyPayable, foundationReserveBalance,
                   foundationReserveWallet, storageSlasher, unbondDelaySeconds,
                   bondHoldings>>
================================================================================
