--------------------------- MODULE SettlementProofs ---------------------------
(****************************************************************************)
(* Machine-checked theorems about module Settlement, for every set of       *)
(* providers, requesters, receipts and windows and every bound.             *)
(*                                                                          *)
(* AnyStep covers every specification of that module.  Seen from one        *)
(* contract, a step is one of that contract's calls or leaves it alone; the *)
(* lemmas below make that split once, so that each invariant is proved only *)
(* against the calls that can disturb it.                                   *)
(*                                                                          *)
(* Times come first (pauses, windows, the unbonding floor), then the money: *)
(* BondInv for the bond contract, AccountInv for what each batch pays,      *)
(* EscrowInv for the pool, each a sum over addresses or leaves, and last    *)
(* SpareInv, about who can be challenged for a double spend.                *)
(****************************************************************************)
EXTENDS Settlement, SumTheorems, TLAPS

(* A step of Spec or of SpecBundled. *)
AnyStep == Next \/ PauseTogether

(* The calls of the registry. *)
RegistryCall ==
    \/ \E p \in Providers, r \in Requesters, root \in Roots, total \in Totals,
          group \in Groups : CommitBatch(p, r, root, total, group)
    \/ \E id \in BatchIds : FinalizeBatch(id)
    \/ \E caller \in Accounts, id \in BatchIds, reason \in Reasons :
          \E leaf \in batches[id].merkleRoot :
              InvalidateReceipt(caller, id, leaf, reason)
    \/ \E w \in Windows : SetChallengeWindowSeconds(w)
    \/ \E w \in Lookbacks : SetSettlementLookbackWindow(w)
    \/ \E a \in PoolWirings : SetEscrowPool(a)
    \/ \E a \in BondWirings : SetStakeBond(a)
    \/ \E a \in VerifierWirings : SetSignatureVerifier(a)
    \/ PauseRegistry
    \/ UnpauseRegistry

(* The calls of the bond contract. *)
StakeCall ==
    \/ \E p \in Providers, amount \in BondAmounts, rate \in SlashRates :
          Bond(p, amount, rate)
    \/ \E p \in Providers : RequestUnbond(p) \/ WithdrawStake(p)
    \/ \E p \in Providers, a \in Credited : Slash(p, a)
    \/ \E a \in Accounts : ClaimBounty(a)
    \/ \E d \in UnbondDelays : SetUnbondDelay(d)
    \/ \E a \in StorageSlashers : SetStorageSlasherOnce(a)
    \/ \E a \in ReserveWallets : SetFoundationReserveWallet(a)
    \/ DrainFoundationReserve
    \/ PauseBond
    \/ UnpauseBond

(* The calls of the escrow pool. *)
PoolCall ==
    \/ \E r \in Depositors, amount \in Amounts : Deposit(r, amount)
    \/ \E r \in Depositors \cup {NoContract}, amount \in Int : PayOut(r, amount)
    \/ \E t \in Tokens : SetFtnsToken(t)
    \/ PausePool
    \/ UnpausePool

--------------------------------------------------------------------------------
(* What a step of the system is to the registry and to the count of open    *)
(* seconds (the calls of BatchSettlementRegistry, and the passing of time). *)
LEMMA RegistryView ==
    ASSUME [AnyStep]_vars
    PROVE  \/ Block
           \/ RegistryCall /\ UNCHANGED openSeconds
           \/ UNCHANGED <<now, registryVars, openSeconds>>
<1>1. CASE RegistryStep
  <2>1. CASE \E p \in Providers, r \in Requesters, root \in Roots, total \in Totals,
          group \in Groups : Commit(p, r, root, total, group)
    BY <2>1 DEF Commit, RegistryCall, observers
  <2>2. CASE \E id \in BatchIds : Finalize(id)
    BY <2>2 DEF Finalize, RegistryCall
  <2>3. CASE \E caller \in Accounts, id \in BatchIds, reason \in Reasons :
          \E leaf \in batches[id].merkleRoot : Challenge(caller, id, leaf, reason)
    BY <2>3 DEF Challenge, RegistryCall
  <2> QED BY <1>1, <2>1, <2>2, <2>3 DEF RegistryStep
<1>2. CASE StakeStep \/ PoolStep \/ OwnerStakeStep \/ OwnerPoolStep \/ PauseBondAlone
  BY <1>2 DEF StakeStep, PoolStep, OwnerStakeStep, OwnerPoolStep, PauseBondAlone, observers
<1>3. CASE \E p \in Providers, challenger \in Credited : StorageSlash(p, challenger)
  BY <1>3 DEF StorageSlash, observers
<1>4. CASE OwnerRegistryStep
  BY <1>4 DEF OwnerRegistryStep, RegistryCall, observers
<1>5. CASE \E w \in Windows : SetWindow(w)
  BY <1>5 DEF SetWindow, RegistryCall, observers
<1>6. CASE PauseRegistryAlone \/ PauseTogether
  BY <1>6 DEF PauseRegistryAlone, PauseTogether, RegistryCall, observers
<1>7. CASE UNCHANGED vars
  BY <1>7 DEF vars, observers
<1> QED
  BY <1>1, <1>2, <1>3, <1>4, <1>5, <1>6, <1>7 DEF AnyStep, Next, UserStep, OwnerStep

(* A pause never starts in the future; unpausing adds a natural number. *)
PauseStarted == pauseStartedAt <= now

(* The registry's type is kept by its calls and by time: every call of      *)
(* BatchSettlementRegistry writes well-formed batches, counters and pauses. *)
LEMMA RegistryTypeStep ==
    ASSUME RegistryTypeOK, PauseStarted,
           RegistryCall \/ Tick \/ UNCHANGED <<now, registryVars>>
    PROVE  RegistryTypeOK' /\ PauseStarted'
<1> USE RegistryAssumption DEF RegistryTypeOK, PauseStarted
<1>1. ASSUME NEW p \in Providers, NEW r \in Requesters, NEW root \in Roots,
             NEW total \in Totals, NEW group \in Groups,
             CommitBatch(p, r, root, total, group)
      PROVE  RegistryTypeOK' /\ PauseStarted'
  <2> DEFINE id == <<p, providerBatchSequence[p]>>
             b == [requester |-> r, merkleRoot |-> root, totalValueFTNS |-> total,
                   invalidatedValueFTNS |-> 0, commitTimestamp |-> now,
                   status |-> "PENDING", consensus_group_id |-> group,
                   lookbackWindowSecondsAtCommit |-> settlementLookbackWindowSeconds,
                   totalPausedAtBatchOrigin |-> totalPausedSeconds,
                   challengeWindowSecondsAtCommit |-> challengeWindowSeconds,
                   escrowPoolAtCommit |-> escrowPool,
                   stakeBondAtCommit |-> stakeBond,
                   signatureVerifierAtCommit |-> signatureVerifier]
  <2>1. b \in Batch
    BY DEF Batch, BatchStatus
  <2>2. batches' = [batches EXCEPT ![id] = b]
    BY <1>1 DEF CommitBatch
  <2>3. batches' \in [BatchIds -> Batch]
    BY <2>1, <2>2
  <2>4. /\ lastPendingBatchExpiry' \in [Providers -> Nat]
        /\ lastPendingBatchPausedAtAccrual' \in [Providers -> Nat]
    BY <1>1 DEF CommitBatch, TrackPendingExpiry
  <2>5. providerBatchSequence' \in [Providers -> Nat]
    BY <1>1 DEF CommitBatch
  <2> QED BY <1>1, <2>3, <2>4, <2>5 DEF CommitBatch, configVars, registryPauseVars
<1>2. ASSUME NEW id \in BatchIds, FinalizeBatch(id)
      PROVE  RegistryTypeOK' /\ PauseStarted'
  <2>1. batches' \in [BatchIds -> Batch]
    BY <1>2 DEF FinalizeBatch, Batch, BatchStatus
  <2> QED BY <1>2, <2>1 DEF FinalizeBatch, configVars, registryPauseVars
<1>3. ASSUME NEW caller \in Accounts, NEW id \in BatchIds, NEW reason \in Reasons,
             NEW leaf \in batches[id].merkleRoot,
             InvalidateReceipt(caller, id, leaf, reason)
      PROVE  RegistryTypeOK' /\ PauseStarted'
  <2>1. leaf \in ReceiptLeaves
    BY DEF Batch
  <2>2. batches' \in [BatchIds -> Batch]
    BY <1>3, <2>1 DEF InvalidateReceipt, Batch
  <2>3. invalidatedReceipts' \in [BatchIds -> SUBSET ReceiptLeaves]
    BY <1>3, <2>1 DEF InvalidateReceipt
  <2> QED BY <1>3, <2>2, <2>3 DEF InvalidateReceipt, configVars, registryPauseVars
<1>4. ASSUME \/ \E w \in Windows : SetChallengeWindowSeconds(w)
             \/ \E w \in Lookbacks : SetSettlementLookbackWindow(w)
      PROVE  RegistryTypeOK' /\ PauseStarted'
  BY <1>4 DEF SetChallengeWindowSeconds, SetSettlementLookbackWindow, batchVars,
     registryPauseVars
<1>9. ASSUME \/ \E a \in PoolWirings : SetEscrowPool(a)
             \/ \E a \in BondWirings : SetStakeBond(a)
             \/ \E a \in VerifierWirings : SetSignatureVerifier(a)
      PROVE  RegistryTypeOK' /\ PauseStarted'
  BY <1>9 DEF SetEscrowPool, SetStakeBond, SetSignatureVerifier, batchVars, registryPauseVars
<1>5. CASE PauseRegistry
  BY <1>5 DEF PauseRegistry, batchVars, configVars
<1>6. CASE UnpauseRegistry
  <2>1. /\ registryPaused' \in BOOLEAN
        /\ UNCHANGED <<now, batchVars, configVars>>
        /\ pauseStartedAt' = 0
    BY <1>6 DEF UnpauseRegistry
  <2>2. totalPausedSeconds' \in Nat
    BY <1>6 DEF UnpauseRegistry
  <2> QED BY <2>1, <2>2 DEF batchVars, configVars
<1>7. CASE Tick
  BY <1>7 DEF Tick, registryVars, batchVars, configVars, registryPauseVars
<1>8. CASE UNCHANGED <<now, registryVars>>
  BY <1>8 DEF registryVars, batchVars, configVars, registryPauseVars
<1> QED BY <1>1, <1>2, <1>3, <1>4, <1>5, <1>6, <1>7, <1>8, <1>9 DEF RegistryCall

--------------------------------------------------------------------------------
(* What a step of the system is to the bond contract (StakeBond's calls). *)
LEMMA StakeView ==
    ASSUME [AnyStep]_vars
    PROVE  StakeCall \/ UNCHANGED stakeVars
<1>1. CASE RegistryStep
  <2>1. CASE \E p \in Providers, r \in Requesters, root \in Roots, total \in Totals,
          group \in Groups : Commit(p, r, root, total, group)
    BY <2>1 DEF Commit
  <2>2. CASE \E id \in BatchIds : Finalize(id)
    BY <2>2 DEF Finalize
  <2>3. ASSUME NEW caller \in Accounts, NEW id \in BatchIds, NEW reason \in Reasons,
               NEW leaf \in batches[id].merkleRoot, Challenge(caller, id, leaf, reason)
        PROVE  StakeCall \/ UNCHANGED stakeVars
    <3>1. id[1] \in Providers
      BY DEF BatchIds
    <3> QED BY <2>3, <3>1 DEF Challenge, StakeCall, Credited
  <2> QED BY <1>1, <2>1, <2>2, <2>3 DEF RegistryStep
<1>2. CASE StakeStep \/ OwnerStakeStep \/ PauseBondAlone \/ PauseTogether
  BY <1>2 DEF StakeStep, OwnerStakeStep, PauseBondAlone, PauseTogether, StakeCall
<1>3. CASE PoolStep \/ OwnerPoolStep \/ OwnerRegistryStep \/ PauseRegistryAlone \/ Block
  BY <1>3 DEF PoolStep, OwnerPoolStep, OwnerRegistryStep, PauseRegistryAlone, Block
<1>4. CASE \E p \in Providers, challenger \in Credited : StorageSlash(p, challenger)
  BY <1>4 DEF StorageSlash, StakeCall
<1>5. CASE \E w \in Windows : SetWindow(w)
  BY <1>5 DEF SetWindow
<1>6. CASE UNCHANGED vars
  BY <1>6 DEF vars
<1> QED
  BY <1>1, <1>2, <1>3, <1>4, <1>5, <1>6 DEF AnyStep, Next, UserStep, OwnerStep

(* slash never takes more than the stake (amount * rate / 10000, with the   *)
(* rate at most 10000).                                                     *)
LEMMA ScaledDown ==
    ASSUME NEW a \in Nat, NEW r \in 0 .. BPS
    PROVE  (a * r) \div BPS \in 0 .. a
<1> DEFINE x == a * r
           q == x \div 10000
<1>1. x \in Nat /\ x <= a * 10000
  BY DEF BPS
<1> HIDE DEF x
<1>2. q \in Int /\ 10000 * q <= x /\ x < 10000 * q + 10000
  BY <1>1
<1> HIDE DEF q
<1>3. q \in 0 .. a
  BY <1>1, <1>2
<1> QED BY <1>3 DEF BPS, x, q

(* The two shares of a slash are natural numbers and add up to it. *)
LEMMA SlashShares ==
    ASSUME StakeTypeOK, NEW p \in Providers, NEW c \in Credited
    PROVE  /\ SlashAmount(p) \in 0 .. stakes[p].amount
           /\ ChallengerShare(p, c) \in 0 .. SlashAmount(p)
           /\ FoundationShare(p, c) \in 0 .. SlashAmount(p)
<1>1. stakes[p].amount \in Nat /\ stakes[p].tier_slash_rate_bps \in 0 .. BPS
  BY DEF StakeTypeOK, Stake
<1>2. SlashAmount(p) \in 0 .. stakes[p].amount
  BY <1>1, ScaledDown DEF SlashAmount
<1>3. CHALLENGER_BOUNTY_BPS \in 0 .. BPS
  BY DEF CHALLENGER_BOUNTY_BPS, BPS
<1>4. ChallengerShare(p, c) \in 0 .. SlashAmount(p)
  <2> DEFINE taken == SlashAmount(p)
  <2>1. taken \in Nat
    BY <1>1, <1>2
  <2>2. (taken * CHALLENGER_BOUNTY_BPS) \div BPS \in 0 .. taken
    BY <2>1, <1>3, ScaledDown
  <2> QED BY <2>1, <2>2 DEF ChallengerShare
<1> QED BY <1>1, <1>2, <1>4 DEF FoundationShare

(* The bond contract's type is kept by its calls: amounts stay natural,     *)
(* rates stay within 10000, a stake is in one of its four states.           *)
LEMMA StakeTypeStep ==
    ASSUME RegistryTypeOK, StakeTypeOK, StakeCall \/ UNCHANGED stakeVars
    PROVE  StakeTypeOK'
<1> USE StakeAssumption, RegistryAssumption DEF StakeTypeOK
<1>1. ASSUME NEW p \in Providers, NEW amount \in BondAmounts, NEW rate \in SlashRates,
             Bond(p, amount, rate)
      PROVE  StakeTypeOK'
  <2>1. [amount |-> amount, unbond_eligible_at |-> 0, status |-> "BONDED",
         tier_slash_rate_bps |-> rate] \in Stake
    BY <1>1 DEF Bond, Stake, StakeStatus, BPS
  <2> QED BY <1>1, <2>1 DEF Bond
<1>2. ASSUME NEW p \in Providers, RequestUnbond(p)
      PROVE  StakeTypeOK'
  <2>1. Larger(Larger(now + unbondDelaySeconds, now + challengeWindowSeconds),
               PendingExpiryFloor(p)) \in Nat
    BY DEF Larger, PendingExpiryFloor, RegistryTypeOK
  <2>2. stakes' \in [Providers -> Stake]
    BY <1>2, <2>1 DEF RequestUnbond, Stake, StakeStatus
  <2> QED BY <1>2, <2>2 DEF RequestUnbond
<1>3. ASSUME NEW p \in Providers, WithdrawStake(p)
      PROVE  StakeTypeOK'
  <2>1. stakes' \in [Providers -> Stake]
    BY <1>3 DEF WithdrawStake, Stake, StakeStatus
  <2>2. bondHoldings' \in Int
    BY <1>3 DEF WithdrawStake, Stake
  <2> QED BY <1>3, <2>1, <2>2 DEF WithdrawStake
<1>4. ASSUME NEW p \in Providers, NEW a \in Credited, Slash(p, a)
      PROVE  StakeTypeOK'
  <2>1. /\ SlashAmount(p) \in 0 .. stakes[p].amount
        /\ ChallengerShare(p, a) \in Nat
        /\ FoundationShare(p, a) \in Nat
    BY SlashShares
  <2>2. stakes[p].amount - SlashAmount(p) \in Nat
    BY <2>1 DEF Stake
  <2>3. stakes' \in [Providers -> Stake]
    BY <1>4, <2>2 DEF Slash, Stake
  <2>4. slashedBountyPayable' \in [Accounts -> Nat]
    BY <1>4, <2>1 DEF Slash, NoBounty, Credited
  <2>5. foundationReserveBalance' \in Nat
    BY <1>4, <2>1 DEF Slash
  <2> QED BY <1>4, <2>3, <2>4, <2>5 DEF Slash
<1>5. ASSUME NEW a \in Accounts, ClaimBounty(a)
      PROVE  StakeTypeOK'
  BY <1>5 DEF ClaimBounty
<1>6. CASE DrainFoundationReserve
  BY <1>6 DEF DrainFoundationReserve
<1>7. ASSUME \/ \E d \in UnbondDelays : SetUnbondDelay(d)
             \/ \E a \in StorageSlashers : SetStorageSlasherOnce(a)
             \/ \E a \in ReserveWallets : SetFoundationReserveWallet(a)
      PROVE  StakeTypeOK'
  BY <1>7 DEF SetUnbondDelay, SetStorageSlasherOnce, SetFoundationReserveWallet
<1>8. CASE PauseBond \/ UnpauseBond
  BY <1>8 DEF PauseBond, UnpauseBond
<1>9. CASE UNCHANGED stakeVars
  BY <1>9 DEF stakeVars
<1> QED
  BY <1>1, <1>2, <1>3, <1>4, <1>5, <1>6, <1>7, <1>8, <1>9 DEF StakeCall

--------------------------------------------------------------------------------
(* What a step of the system is to the escrow pool (EscrowPool's calls). *)
LEMMA PoolView ==
    ASSUME RegistryTypeOK, [AnyStep]_vars
    PROVE  PoolCall \/ UNCHANGED poolVars
<1>1. CASE RegistryStep
  <2>1. ASSUME NEW id \in BatchIds, Finalize(id)
        PROVE  PoolCall \/ UNCHANGED poolVars
    <3>1. /\ FinalValue(batches[id]) \in Int
          /\ batches[id].requester \in Depositors \cup {NoContract}
      BY RequestersDeposit DEF RegistryTypeOK, Batch, FinalValue
    <3>2. CASE FinalValue(batches[id]) > 0
      <4>1. PayOut(batches[id].requester, FinalValue(batches[id]))
        BY <2>1, <3>2 DEF Finalize, SettleFromRequester
      <4> QED BY <3>1, <4>1 DEF PoolCall
    <3> QED BY <2>1, <3>1, <3>2 DEF Finalize
  <2> QED BY <1>1, <2>1 DEF RegistryStep, Commit, Challenge
<1>2. CASE PoolStep
  <2>1. Amounts \subseteq Int
    BY EscrowAssumption
  <2> QED BY <1>2, <2>1 DEF PoolStep, PoolCall, WithdrawEscrow
<1>3. CASE OwnerPoolStep
  BY <1>3 DEF OwnerPoolStep, PoolCall
<1>4. CASE StakeStep \/ OwnerStakeStep \/ PauseBondAlone \/ PauseTogether \/ Block
  BY <1>4 DEF StakeStep, OwnerStakeStep, PauseBondAlone, PauseTogether, Block
<1>5. CASE OwnerRegistryStep \/ PauseRegistryAlone
  BY <1>5 DEF OwnerRegistryStep, PauseRegistryAlone
<1>6. CASE \E p \in Providers, challenger \in Credited : StorageSlash(p, challenger)
  BY <1>6 DEF StorageSlash
<1>7. CASE \E w \in Windows : SetWindow(w)
  BY <1>7 DEF SetWindow
<1>8. CASE UNCHANGED vars
  BY <1>8 DEF vars
<1> QED
  BY <1>1, <1>2, <1>3, <1>4, <1>5, <1>6, <1>7, <1>8 DEF AnyStep, Next, UserStep, OwnerStep

(* The pool's type is kept by its calls: no balance goes below zero. *)
LEMMA PoolTypeStep ==
    ASSUME PoolTypeOK, PoolCall \/ UNCHANGED poolVars
    PROVE  PoolTypeOK'
<1> USE EscrowAssumption DEF PoolTypeOK
<1>1. ASSUME NEW r \in Depositors, NEW amount \in Amounts, Deposit(r, amount)
      PROVE  PoolTypeOK'
  BY <1>1 DEF Deposit
<1>2. ASSUME NEW r \in Depositors \cup {NoContract}, NEW amount \in Int,
             PayOut(r, amount)
      PROVE  PoolTypeOK'
  <2>1. balances' \in [Depositors -> Nat]
    <3>1. CASE r \in Depositors
      <4>1. balances[r] - amount \in Nat
        BY <1>2, <3>1 DEF PayOut
      <4> QED BY <1>2, <4>1 DEF PayOut
    <3>2. CASE r \notin Depositors
      <4>1. balances' = balances
        BY <1>2, <3>2 DEF PayOut
      <4> QED BY <4>1
    <3> QED BY <3>1, <3>2
  <2> QED BY <1>2, <2>1 DEF PayOut
<1>3. CASE \E t \in Tokens : SetFtnsToken(t)
  BY <1>3 DEF SetFtnsToken
<1>4. CASE PausePool \/ UnpausePool
  BY <1>4 DEF PausePool, UnpausePool
<1>5. CASE UNCHANGED poolVars
  BY <1>5 DEF poolVars
<1> QED BY <1>1, <1>2, <1>3, <1>4, <1>5 DEF PoolCall

(* The types of the observers. *)
ObserversTypeOK ==
    /\ openSeconds \in [BatchIds -> Nat]
    /\ paid \in [BatchIds -> Nat]
    /\ challengeLog \subseteq [id : BatchIds, leaf : ReceiptLeaves,
                               reason : Reasons, swallowed : BOOLEAN]

(* The observers stay well-typed: the seconds counted by Block, the amounts *)
(* finalizeBatch pays and the events challengeReceipt emits.                *)
LEMMA ObserversTypeStep ==
    ASSUME RegistryTypeOK, ObserversTypeOK, [AnyStep]_vars
    PROVE  ObserversTypeOK'
<1> USE DEF ObserversTypeOK
<1>1. ASSUME NEW id \in BatchIds, Finalize(id)
      PROVE  ObserversTypeOK'
  <2>1. FinalValue(batches[id]) \in Nat
    BY <1>1 DEF RegistryTypeOK, Batch, Finalize, FinalizeBatch, FinalValue
  <2> QED BY <1>1, <2>1 DEF Finalize
<1>2. ASSUME NEW caller \in Accounts, NEW id \in BatchIds, NEW reason \in Reasons,
             NEW leaf \in batches[id].merkleRoot, Challenge(caller, id, leaf, reason)
      PROVE  ObserversTypeOK'
  <2>1. leaf \in ReceiptLeaves
    BY DEF RegistryTypeOK, Batch
  <2>2. \E flag \in BOOLEAN : challengeLog' = challengeLog \cup
            {[id |-> id, leaf |-> leaf, reason |-> reason, swallowed |-> flag]}
    BY <1>2 DEF Challenge
  <2> QED BY <1>2, <2>1, <2>2 DEF Challenge
<1>3. CASE Block
  BY <1>3 DEF Block
<1>4. ASSUME \/ \E p \in Providers, r \in Requesters, root \in Roots, total \in Totals,
                  group \in Groups : Commit(p, r, root, total, group)
             \/ \E p \in Providers, challenger \in Credited : StorageSlash(p, challenger)
             \/ \E w \in Windows : SetWindow(w)
             \/ StakeStep \/ PoolStep \/ OwnerStep
             \/ PauseRegistryAlone \/ PauseBondAlone \/ PauseTogether
             \/ UNCHANGED vars
      PROVE  ObserversTypeOK'
  <2>1. UNCHANGED observers
    BY <1>4 DEF Commit, StorageSlash, SetWindow, StakeStep, PoolStep, OwnerStep,
       OwnerRegistryStep, OwnerStakeStep, OwnerPoolStep, PauseRegistryAlone,
       PauseBondAlone, PauseTogether, vars
  <2> QED BY <2>1 DEF observers
<1> QED BY <1>1, <1>2, <1>3, <1>4 DEF AnyStep, Next, UserStep, RegistryStep

--------------------------------------------------------------------------------
(* The invariant of the types. *)
TypeInv == TypeOK /\ PauseStarted

(* The contracts start well-typed (their constructors). *)
LEMMA TypeInit == Init => TypeInv
<1> SUFFICES ASSUME Init PROVE TypeInv
  OBVIOUS
<1> USE RegistryAssumption, StakeAssumption
<1>1. RegistryTypeOK /\ PauseStarted
  <2>1. EmptyBatch \in Batch
    BY DEF EmptyBatch, Batch, BatchStatus
  <2>2. RegistryInit
    BY DEF Init
  <2>3. /\ now = 0 /\ pauseStartedAt = 0 /\ totalPausedSeconds = 0
        /\ registryPaused \in BOOLEAN
    BY <2>2 DEF RegistryInit
  <2>4. /\ batches \in [BatchIds -> Batch]
        /\ invalidatedReceipts \in [BatchIds -> SUBSET ReceiptLeaves]
    BY <2>1, <2>2 DEF RegistryInit
  <2>5. /\ providerBatchSequence \in [Providers -> Nat]
        /\ lastPendingBatchExpiry \in [Providers -> Nat]
        /\ lastPendingBatchPausedAtAccrual \in [Providers -> Nat]
    BY <2>2 DEF RegistryInit
  <2> QED BY <2>2, <2>3, <2>4, <2>5 DEF RegistryInit, RegistryTypeOK, PauseStarted
<1>2. StakeTypeOK
  <2>1. EmptyStake \in Stake
    BY DEF EmptyStake, Stake, StakeStatus, BPS
  <2>2. StakeInit
    BY DEF Init
  <2>3. stakes \in [Providers -> Stake] /\ slashedBountyPayable \in [Accounts -> Nat]
    BY <2>1, <2>2 DEF StakeInit
  <2>4. bondPaused \in BOOLEAN
    BY <2>2 DEF StakeInit
  <2> QED BY <2>2, <2>3, <2>4 DEF StakeInit, StakeTypeOK
<1>3. PoolTypeOK
  <2>1. PoolInit
    BY DEF Init
  <2>2. balances \in [Depositors -> Nat] /\ poolHoldings \in [Tokens -> Int]
    BY <2>1 DEF PoolInit
  <2> QED BY <2>1, <2>2 DEF PoolInit, PoolTypeOK
<1>4. ObserversTypeOK
  BY DEF Init, ObserversTypeOK
<1> QED BY <1>1, <1>2, <1>3, <1>4 DEF TypeInv, TypeOK, ObserversTypeOK

(* Every call keeps the types of all three contracts. *)
LEMMA TypeStep == TypeInv /\ [AnyStep]_vars => TypeInv'
<1> SUFFICES ASSUME TypeInv, [AnyStep]_vars PROVE TypeInv'
  OBVIOUS
<1> USE DEF TypeInv, TypeOK
<1>1. RegistryTypeOK' /\ PauseStarted'
  <2>1. RegistryCall \/ Tick \/ UNCHANGED <<now, registryVars>>
    BY RegistryView DEF Block
  <2> QED BY <2>1, RegistryTypeStep
<1>2. StakeTypeOK'
  BY StakeView, StakeTypeStep
<1>3. PoolTypeOK'
  BY PoolView, PoolTypeStep
<1>4. ObserversTypeOK'
  BY ObserversTypeStep DEF ObserversTypeOK
<1> QED BY <1>1, <1>2, <1>3, <1>4 DEF ObserversTypeOK

(* The steps under the pause bundle are steps of the contracts, plus the    *)
(* bundle.                                                                  *)
LEMMA BundledIsAny == [NextBundled]_vars => [AnyStep]_vars
  BY DEF NextBundled, AnyStep, Next

(* Type correctness of the three contracts under every call sequence:       *)
(* balances, stakes, bounties and pause totals never leave their types, so  *)
(* no checked subtraction of the model goes below zero.                     *)
THEOREM TypeCorrect == Spec => []TypeOK
<1>1. TypeInv /\ [Next]_vars => TypeInv'
  BY TypeStep DEF AnyStep
<1>2. TypeInv => TypeOK
  BY DEF TypeInv
<1> QED BY TypeInit, <1>1, <1>2, PTL DEF Spec

--------------------------------------------------------------------------------
(****************************************************************************)
(* Pauses and the challenge window                                          *)
(****************************************************************************)
(* A batch that was never committed has not been counted for. *)
FreshUncounted ==
    \A id \in BatchIds : batches[id].status = "NONEXISTENT" => openSeconds[id] = 0

(* The invariant of the pause ledger. *)
LedgerInv == TypeInv /\ PauseLedgerExact /\ FreshUncounted

(* Batch id is committed by this step. *)
BatchAdded(id) ==
    /\ batches[id].status = "NONEXISTENT"
    /\ batches'[id].status = "PENDING"
    /\ batches'[id].commitTimestamp = now
    /\ batches'[id].totalPausedAtBatchOrigin = totalPausedSeconds
    /\ batches'[id].challengeWindowSecondsAtCommit = challengeWindowSeconds
    /\ ~registryPaused
    /\ TrackPendingExpiry(id[1])
    /\ UNCHANGED <<now, registryPauseVars, configVars>>

(* This step leaves all of batch id alone that the pause arithmetic reads. *)
BatchKept(id) ==
    /\ batches'[id].commitTimestamp = batches[id].commitTimestamp
    /\ batches'[id].totalPausedAtBatchOrigin = batches[id].totalPausedAtBatchOrigin
    /\ batches'[id].challengeWindowSecondsAtCommit
         = batches[id].challengeWindowSecondsAtCommit
    /\ \/ batches'[id].status = batches[id].status
       \/ FinalizeBatch(id) /\ batches'[id].status = "FINALIZED"

(* How a registry call can change a batch: a commit adds it with the        *)
(* present time and pause total, the others keep every field of the pause   *)
(* arithmetic, and only finalizeBatch changes the status.                   *)
LEMMA BatchesView ==
    ASSUME RegistryTypeOK, RegistryCall, NEW id \in BatchIds
    PROVE  BatchAdded(id) \/ BatchKept(id)
<1> USE DEF RegistryTypeOK
<1>1. ASSUME NEW p \in Providers, NEW r \in Requesters, NEW root \in Roots,
             NEW total \in Totals, NEW group \in Groups,
             CommitBatch(p, r, root, total, group)
      PROVE  BatchAdded(id) \/ BatchKept(id)
  <2>1. CASE id = <<p, providerBatchSequence[p]>>
    BY <1>1, <2>1 DEF CommitBatch, BatchAdded
  <2>2. CASE id # <<p, providerBatchSequence[p]>>
    <3>1. batches'[id] = batches[id]
      BY <1>1, <2>2 DEF CommitBatch
    <3> QED BY <3>1 DEF BatchKept
  <2> QED BY <2>1, <2>2
<1>2. ASSUME NEW i \in BatchIds, FinalizeBatch(i)
      PROVE  BatchKept(id)
  <2>1. batches' = [batches EXCEPT ![i].status = "FINALIZED"]
    BY <1>2 DEF FinalizeBatch
  <2>2. CASE id = i
    <3>1. batches'[id] = [batches[id] EXCEPT !.status = "FINALIZED"]
      BY <2>1, <2>2
    <3>2. FinalizeBatch(id)
      BY <1>2, <2>2
    <3> QED BY <3>1, <3>2 DEF BatchKept, Batch
  <2>3. CASE id # i
    <3>1. batches'[id] = batches[id]
      BY <2>1, <2>3
    <3> QED BY <3>1 DEF BatchKept
  <2> QED BY <2>2, <2>3
<1>3. ASSUME NEW caller \in Accounts, NEW i \in BatchIds, NEW reason \in Reasons,
             NEW leaf \in batches[i].merkleRoot,
             InvalidateReceipt(caller, i, leaf, reason)
      PROVE  BatchKept(id)
  <2>1. batches' = [batches EXCEPT ![i].invalidatedValueFTNS = @ + leaf.value]
    BY <1>3 DEF InvalidateReceipt
  <2> QED BY <2>1 DEF Batch, BatchKept
<1>4. ASSUME \/ \E w \in Windows : SetChallengeWindowSeconds(w)
             \/ \E w \in Lookbacks : SetSettlementLookbackWindow(w)
             \/ \E a \in PoolWirings : SetEscrowPool(a)
             \/ \E a \in BondWirings : SetStakeBond(a)
             \/ \E a \in VerifierWirings : SetSignatureVerifier(a)
             \/ PauseRegistry \/ UnpauseRegistry
      PROVE  BatchKept(id)
  <2>1. batches' = batches
    BY <1>4 DEF SetChallengeWindowSeconds, SetSettlementLookbackWindow, SetEscrowPool,
       SetStakeBond, SetSignatureVerifier, PauseRegistry, UnpauseRegistry, batchVars
  <2> QED BY <2>1 DEF BatchKept
<1> QED BY <1>1, <1>2, <1>3, <1>4 DEF RegistryCall

(* Time stands still within a call, and only _pause and _unpause touch the  *)
(* pause ledger.                                                            *)
LEMMA ClockView ==
    ASSUME RegistryCall
    PROVE  /\ now' = now
           /\ \/ UNCHANGED registryPauseVars
              \/ PauseRegistry \/ UnpauseRegistry
  BY DEF RegistryCall, CommitBatch, FinalizeBatch, InvalidateReceipt,
     SetChallengeWindowSeconds, SetSettlementLookbackWindow, SetEscrowPool,
     SetStakeBond, SetSignatureVerifier, PauseRegistry, UnpauseRegistry

(* The pause ledger stays exact across every call and every second: the     *)
(* heart of _effectiveElapsed, _pause and _unpause.                         *)
LEMMA LedgerStep == LedgerInv /\ [AnyStep]_vars => LedgerInv'
<1> SUFFICES ASSUME LedgerInv, [AnyStep]_vars PROVE LedgerInv'
  OBVIOUS
<1>1. TypeInv /\ TypeInv'
  BY TypeStep DEF LedgerInv
<1> DEFINE running == IF registryPaused THEN now - pauseStartedAt ELSE 0
           ledger(id) == now - batches[id].commitTimestamp
                 - (totalPausedSeconds - batches[id].totalPausedAtBatchOrigin)
                 - running
<1>2. /\ now \in Nat /\ totalPausedSeconds \in Nat /\ pauseStartedAt \in Nat
      /\ registryPaused \in BOOLEAN
      /\ now' \in Nat /\ totalPausedSeconds' \in Nat /\ pauseStartedAt' \in Nat
  BY <1>1 DEF TypeInv, TypeOK, RegistryTypeOK
<1>3. ASSUME NEW id \in BatchIds
      PROVE  /\ batches[id].commitTimestamp \in Nat
             /\ batches[id].totalPausedAtBatchOrigin \in Nat
             /\ openSeconds[id] \in Nat
             /\ Pending(id) => ledger(id) = openSeconds[id]
             /\ batches[id].status = "NONEXISTENT" => openSeconds[id] = 0
  BY <1>1 DEF LedgerInv, TypeInv, TypeOK, RegistryTypeOK, Batch, PauseLedgerExact,
     FreshUncounted
<1>4. CASE Block
  <2>1. /\ now' = now + 1 /\ batches' = batches
        /\ totalPausedSeconds' = totalPausedSeconds
        /\ registryPaused' = registryPaused /\ pauseStartedAt' = pauseStartedAt
    BY <1>4 DEF Block, Tick, registryVars, batchVars, registryPauseVars
  <2>2. ASSUME NEW id \in BatchIds
        PROVE  openSeconds'[id] = IF Pending(id) /\ ~registryPaused
                                  THEN openSeconds[id] + 1 ELSE openSeconds[id]
    BY <1>4 DEF Block, Pending
  <2>3. ASSUME NEW id \in BatchIds, Pending(id)
        PROVE  ledger(id)' = openSeconds'[id]
    <3>1. CASE registryPaused
      BY <1>2, <1>3, <2>1, <2>2, <2>3, <3>1
    <3>2. CASE ~registryPaused
      BY <1>2, <1>3, <2>1, <2>2, <2>3, <3>2
    <3> QED BY <3>1, <3>2
  <2>4. FreshUncounted'
    BY <1>3, <2>1, <2>2 DEF FreshUncounted, Pending
  <2>5. PauseLedgerExact'
    BY <2>1, <2>3 DEF PauseLedgerExact, Pending
  <2> QED BY <1>1, <2>4, <2>5 DEF LedgerInv
<1>5. CASE RegistryCall /\ UNCHANGED openSeconds
  <2>1. ASSUME NEW id \in BatchIds
        PROVE  /\ Pending(id)' => ledger(id)' = openSeconds'[id]
               /\ batches'[id].status = "NONEXISTENT" => openSeconds'[id] = 0
    <3>1. CASE BatchAdded(id)
      <4>1. /\ batches'[id].commitTimestamp = now
            /\ batches'[id].totalPausedAtBatchOrigin = totalPausedSeconds
            /\ batches'[id].status = "PENDING"
            /\ now' = now /\ totalPausedSeconds' = totalPausedSeconds
            /\ ~registryPaused /\ registryPaused' = registryPaused
        BY <3>1 DEF BatchAdded, registryPauseVars
      <4>2. openSeconds'[id] = 0
        BY <1>3, <1>5, <3>1 DEF BatchAdded
      <4>3. ledger(id)' = 0
        BY <1>2, <4>1
      <4> QED BY <4>1, <4>2, <4>3
    <3>2. CASE BatchKept(id)
      <4>2. now' = now
        BY <1>5, ClockView
      <4>1. running' + totalPausedSeconds' = running + totalPausedSeconds
        <5>1. CASE UNCHANGED registryPauseVars
          BY <4>2, <5>1 DEF registryPauseVars
        <5>2. CASE PauseRegistry
          <6>1. running = 0 /\ running' = 0
            BY <1>2, <5>2 DEF PauseRegistry
          <6> QED BY <5>2, <6>1 DEF PauseRegistry
        <5>3. CASE UnpauseRegistry
          <6>1. running = now - pauseStartedAt /\ running' = 0
            BY <5>3 DEF UnpauseRegistry
          <6>2. totalPausedSeconds' = totalPausedSeconds + (now - pauseStartedAt)
            BY <5>3 DEF UnpauseRegistry
          <6> HIDE DEF running
          <6> QED BY <1>2, <6>1, <6>2
        <5> QED BY <1>5, <5>1, <5>2, <5>3, ClockView
      <4>3. running \in Int /\ running' \in Int
        BY <1>2
      <4> HIDE DEF running
      <4>7. /\ batches'[id].commitTimestamp = batches[id].commitTimestamp
            /\ batches'[id].totalPausedAtBatchOrigin = batches[id].totalPausedAtBatchOrigin
        BY <3>2 DEF BatchKept
      <4>4. ledger(id)' = ledger(id)
        BY <1>2, <1>3, <4>1, <4>2, <4>3, <4>7
      <4>5. Pending(id)' => Pending(id)
        BY <3>2 DEF BatchKept, Pending
      <4>6. batches'[id].status = "NONEXISTENT" => batches[id].status = "NONEXISTENT"
        BY <3>2 DEF BatchKept
      <4> QED BY <1>3, <1>5, <4>4, <4>5, <4>6
    <3> QED BY <1>1, <1>5, <3>1, <3>2, BatchesView DEF TypeInv, TypeOK
  <2> QED BY <1>1, <2>1 DEF LedgerInv, PauseLedgerExact, FreshUncounted, Pending
<1>6. CASE UNCHANGED <<now, registryVars, openSeconds>>
  BY <1>1, <1>6 DEF LedgerInv, PauseLedgerExact, FreshUncounted, Pending, registryVars,
     batchVars, registryPauseVars
<1> QED BY <1>4, <1>5, <1>6, RegistryView

(* A fresh deployment has nothing to account for. *)
LEMMA LedgerInit == Init => LedgerInv
<1> SUFFICES ASSUME Init PROVE LedgerInv
  OBVIOUS
<1>1. TypeInv
  BY TypeInit
<1>2. \A id \in BatchIds : batches[id].status = "NONEXISTENT" /\ openSeconds[id] = 0
  BY DEF Init, RegistryInit, EmptyBatch
<1> QED BY <1>1, <1>2 DEF LedgerInv, PauseLedgerExact, FreshUncounted, Pending

(* _effectiveElapsed is exact whenever it can be acted upon: with no pause  *)
(* running it equals the seconds the batch was open to challengers.         *)
LEMMA EffectiveElapsedExact ==
    ASSUME LedgerInv, NEW id \in BatchIds, Pending(id), ~registryPaused
    PROVE  EffectiveElapsed(batches[id]) = openSeconds[id]
<1>1. /\ now \in Nat /\ totalPausedSeconds \in Nat /\ openSeconds[id] \in Nat
      /\ batches[id].commitTimestamp \in Nat
      /\ batches[id].totalPausedAtBatchOrigin \in Nat
  BY DEF LedgerInv, TypeInv, TypeOK, RegistryTypeOK, Batch
<1>2. now - batches[id].commitTimestamp
        - (totalPausedSeconds - batches[id].totalPausedAtBatchOrigin) - 0
      = openSeconds[id]
  BY DEF LedgerInv, PauseLedgerExact
<1> QED BY <1>1, <1>2 DEF EffectiveElapsed

(* The contract's pause arithmetic agrees with the seconds counted block by *)
(* block, for every interleaving of commits, challenges, window changes,    *)
(* pauses and time (_effectiveElapsed, _pause, _unpause).                   *)
THEOREM PauseLedgerCorrect == Spec => []PauseLedgerExact
<1>1. LedgerInv /\ [Next]_vars => LedgerInv'
  BY LedgerStep DEF AnyStep
<1>2. LedgerInv => PauseLedgerExact
  BY DEF LedgerInv
<1> QED BY LedgerInit, <1>1, <1>2, PTL DEF Spec

(* No batch is finalized before challengers had its whole pinned window,    *)
(* whatever the owner pauses or reconfigures in between (finalizeBatch).    *)
THEOREM FinalizationWaits == Spec => FinalizeOnlyAfterOpenWindow
<1> DEFINE Waits == \A id \in BatchIds :
          Pending(id) /\ batches'[id].status = "FINALIZED"
             => openSeconds[id] >= WindowOf(id)
<1>1. LedgerInv /\ [Next]_vars => LedgerInv'
  BY LedgerStep DEF AnyStep
<1>2. ASSUME LedgerInv, [Next]_vars
      PROVE  Waits
  <2> SUFFICES ASSUME NEW id \in BatchIds, Pending(id),
                      batches'[id].status = "FINALIZED"
               PROVE  openSeconds[id] >= WindowOf(id)
    OBVIOUS
  <2>1. CASE RegistryCall
    <3>1. BatchAdded(id) \/ BatchKept(id)
      BY <1>2, <2>1, BatchesView DEF LedgerInv, TypeInv, TypeOK
    <3>2. FinalizeBatch(id)
      BY <3>1 DEF BatchAdded, BatchKept, Pending
    <3>3. ~registryPaused /\ EffectiveElapsed(batches[id]) >= WindowOf(id)
      BY <3>2 DEF FinalizeBatch, IsFinalizable, WindowOf
    <3> QED BY <1>2, <3>3, EffectiveElapsedExact
  <2>2. CASE Block \/ UNCHANGED <<now, registryVars, openSeconds>>
    BY <2>2 DEF Block, Tick, registryVars, batchVars, Pending
  <2> QED BY <1>2, <2>1, <2>2, RegistryView DEF AnyStep
<1>3. LedgerInv /\ [Next]_vars => [Waits]_vars
  BY <1>2
<1> HIDE DEF Waits
<1>4. Spec => [][Waits]_vars
  BY LedgerInit, <1>1, <1>3, PTL DEF Spec
<1> QED BY <1>4 DEF Waits, FinalizeOnlyAfterOpenWindow

--------------------------------------------------------------------------------
(****************************************************************************)
(* Unbonding against pending batches, under the pause bundle                *)
(****************************************************************************)
(* Measured on the clock that stands still during pauses, the tracker of a  *)
(* provider reaches at least as far as each of its pending batches that is  *)
(* not undercut; on the wall clock, as far as every one of them.            *)
TrackerCovers ==
    /\ \A id \in BatchIds : Pending(id) =>
          /\ batches[id].commitTimestamp + WindowOf(id) <= lastPendingBatchExpiry[id[1]]
          /\ ~Undercut(id) =>
                batches[id].commitTimestamp + WindowOf(id)
                  - batches[id].totalPausedAtBatchOrigin
                <= lastPendingBatchExpiry[id[1]] - lastPendingBatchPausedAtAccrual[id[1]]
    /\ \A p \in Providers : lastPendingBatchPausedAtAccrual[p] <= totalPausedSeconds

(* The invariant of the race between unbonding and pending batches. *)
RaceInv == LedgerInv /\ TrackerCovers /\ bondPaused = registryPaused

(* The pauses of the two contracts move together under the bundle. *)
LEMMA PausesTogetherStep ==
    ASSUME bondPaused = registryPaused, [NextBundled]_vars
    PROVE  bondPaused' = registryPaused'
<1>1. CASE RegistryStep
  <2>1. CASE \E p \in Providers, r \in Requesters, root \in Roots, total \in Totals,
          group \in Groups : Commit(p, r, root, total, group)
    BY <2>1 DEF Commit, CommitBatch, stakeVars, registryPauseVars
  <2>2. CASE \E id \in BatchIds : Finalize(id)
    BY <2>2 DEF Finalize, FinalizeBatch, stakeVars, registryPauseVars
  <2>3. ASSUME NEW caller \in Accounts, NEW id \in BatchIds, NEW reason \in Reasons,
               NEW leaf \in batches[id].merkleRoot, Challenge(caller, id, leaf, reason)
        PROVE  bondPaused' = registryPaused'
    <3>1. registryPaused' = registryPaused
      BY <2>3 DEF Challenge, InvalidateReceipt, registryPauseVars
    <3>2. Slash(id[1], caller) \/ UNCHANGED stakeVars
      BY <2>3 DEF Challenge
    <3>3. bondPaused' = bondPaused
      BY <3>2 DEF Slash, stakeVars
    <3> QED BY <3>1, <3>3
  <2> QED BY <1>1, <2>1, <2>2, <2>3 DEF RegistryStep
<1>2. CASE StakeStep \/ OwnerStakeStep
  BY <1>2 DEF StakeStep, OwnerStakeStep, Bond, RequestUnbond, WithdrawStake, ClaimBounty,
     SetUnbondDelay, SetStorageSlasherOnce, SetFoundationReserveWallet,
     DrainFoundationReserve, registryVars, registryPauseVars
<1>3. CASE PoolStep \/ OwnerPoolStep
  BY <1>3 DEF PoolStep, OwnerPoolStep, registryVars, registryPauseVars, stakeVars
<1>4. CASE OwnerRegistryStep \/ Block
  BY <1>4 DEF OwnerRegistryStep, SetSettlementLookbackWindow, SetEscrowPool, SetStakeBond,
     SetSignatureVerifier, Block, Tick, registryVars, registryPauseVars, stakeVars
<1>5. CASE \E p \in Providers, challenger \in Credited : StorageSlash(p, challenger)
  BY <1>5 DEF StorageSlash, Slash, registryVars, registryPauseVars
<1>6. CASE \E w \in Windows : SetWindow(w)
  BY <1>6 DEF SetWindow, SetChallengeWindowSeconds, registryPauseVars, stakeVars
<1>7. CASE PauseTogether
  <2>1. CASE PauseRegistry /\ PauseBond
    BY <2>1 DEF PauseRegistry, PauseBond
  <2>2. CASE UnpauseRegistry /\ UnpauseBond
    BY <2>2 DEF UnpauseRegistry, UnpauseBond
  <2> QED BY <1>7, <2>1, <2>2 DEF PauseTogether
<1>8. CASE UNCHANGED vars
  BY <1>8 DEF vars, registryVars, registryPauseVars, stakeVars
<1> QED BY <1>1, <1>2, <1>3, <1>4, <1>5, <1>6, <1>7, <1>8
        DEF NextBundled, UserStep, OwnerStep

(* The tracker pair moves only with a commit of that provider. *)
LEMMA TrackerView ==
    ASSUME RegistryTypeOK, [NextBundled]_vars
    PROVE  \/ UNCHANGED <<lastPendingBatchExpiry, lastPendingBatchPausedAtAccrual>>
           \/ \E id \in BatchIds : BatchAdded(id)
<1>1. ASSUME NEW p \in Providers, NEW r \in Requesters, NEW root \in Roots,
             NEW total \in Totals, NEW group \in Groups,
             Commit(p, r, root, total, group)
      PROVE  \E id \in BatchIds : BatchAdded(id)
  <2> DEFINE id == <<p, providerBatchSequence[p]>>
  <2>1. providerBatchSequence[p] \in Nat /\ providerBatchSequence[p] < MaxBatches
    BY <1>1 DEF RegistryTypeOK, Commit, CommitBatch
  <2>2. id \in BatchIds
    BY <2>1, RegistryAssumption DEF BatchIds
  <2>3. CommitBatch(p, r, root, total, group)
    BY <1>1 DEF Commit
  <2>4. BatchAdded(id)
    BY <2>2, <2>3 DEF CommitBatch, BatchAdded, RegistryTypeOK
  <2> QED BY <2>2, <2>4
<1>2. ASSUME \/ \E id \in BatchIds : Finalize(id)
             \/ \E caller \in Accounts, id \in BatchIds, reason \in Reasons :
                   \E leaf \in batches[id].merkleRoot : Challenge(caller, id, leaf, reason)
             \/ \E p \in Providers, challenger \in Credited : StorageSlash(p, challenger)
             \/ StakeStep \/ PoolStep \/ OwnerStakeStep \/ OwnerPoolStep
             \/ PauseTogether \/ Block \/ UNCHANGED vars
      PROVE  UNCHANGED <<lastPendingBatchExpiry, lastPendingBatchPausedAtAccrual>>
  BY <1>2 DEF Finalize, FinalizeBatch, Challenge, InvalidateReceipt, StorageSlash,
     StakeStep, PoolStep, OwnerStakeStep, OwnerPoolStep, PauseTogether, PauseRegistry,
     UnpauseRegistry, Block, Tick, vars, registryVars, batchVars
<1>3. CASE OwnerRegistryStep \/ \E w \in Windows : SetWindow(w)
  BY <1>3 DEF OwnerRegistryStep, SetSettlementLookbackWindow, SetEscrowPool,
     SetStakeBond, SetSignatureVerifier, SetWindow, SetChallengeWindowSeconds, batchVars
<1> QED BY <1>1, <1>2, <1>3 DEF NextBundled, UserStep, OwnerStep, RegistryStep

(* A commit pushes the tracker of a provider outwards on the wall clock,    *)
(* and at least to the new batch on the pause-free clock.                   *)
LEMMA TrackerMoves ==
    ASSUME RegistryTypeOK, TrackerCovers, NEW p \in Providers, TrackPendingExpiry(p)
    PROVE  /\ now + challengeWindowSeconds - totalPausedSeconds
                <= lastPendingBatchExpiry'[p] - lastPendingBatchPausedAtAccrual'[p]
           /\ now + challengeWindowSeconds <= lastPendingBatchExpiry'[p]
           /\ \A q \in Providers \ {p} :
                /\ lastPendingBatchExpiry'[q] = lastPendingBatchExpiry[q]
                /\ lastPendingBatchPausedAtAccrual'[q] = lastPendingBatchPausedAtAccrual[q]
           /\ \/ /\ lastPendingBatchExpiry'[p] = lastPendingBatchExpiry[p]
                 /\ lastPendingBatchPausedAtAccrual'[p] = lastPendingBatchPausedAtAccrual[p]
              \/ /\ lastPendingBatchPausedAtAccrual'[p] = totalPausedSeconds
                 /\ lastPendingBatchExpiry'[p] = now + challengeWindowSeconds
                 /\ lastPendingBatchExpiry[p] < lastPendingBatchExpiry'[p]
<1>1. /\ now \in Nat /\ challengeWindowSeconds \in Nat /\ totalPausedSeconds \in Nat
      /\ lastPendingBatchExpiry \in [Providers -> Nat]
      /\ lastPendingBatchPausedAtAccrual \in [Providers -> Nat]
  BY RegistryAssumption DEF RegistryTypeOK
<1>2. lastPendingBatchPausedAtAccrual[p] <= totalPausedSeconds
  BY DEF TrackerCovers
<1>3. CASE now + challengeWindowSeconds > lastPendingBatchExpiry[p]
  BY <1>1, <1>3 DEF TrackPendingExpiry
<1>4. CASE ~(now + challengeWindowSeconds > lastPendingBatchExpiry[p])
  <2>1. UNCHANGED <<lastPendingBatchExpiry, lastPendingBatchPausedAtAccrual>>
    BY <1>4 DEF TrackPendingExpiry
  <2> QED BY <1>1, <1>2, <1>4, <2>1
<1> QED BY <1>3, <1>4

(* A step adds a batch or keeps its times. *)
LEMMA AddedOrKept ==
    ASSUME RegistryTypeOK, [AnyStep]_vars, NEW id \in BatchIds
    PROVE  BatchAdded(id) \/ BatchKept(id)
<1>1. CASE RegistryCall
  BY <1>1, BatchesView
<1>2. CASE batches' = batches
  BY <1>2 DEF BatchKept
<1> QED BY <1>1, <1>2, RegistryView DEF Block, Tick, registryVars, batchVars

(* A batch that is undercut stays so, and a commit with a shorter window    *)
(* after a pause undercuts.                                                 *)
LEMMA UndercutGrows ==
    ASSUME RegistryTypeOK, [AnyStep]_vars, NEW id \in BatchIds, BatchKept(id),
           \/ Undercut(id)
           \/ \E later \in BatchIds :
                /\ BatchAdded(later)
                /\ later[1] = id[1]
                /\ challengeWindowSeconds < WindowOf(id)
                /\ totalPausedSeconds > batches[id].totalPausedAtBatchOrigin
    PROVE  Undercut(id)'
<1>1. /\ WindowOf(id)' = WindowOf(id)
      /\ batches'[id].totalPausedAtBatchOrigin = batches[id].totalPausedAtBatchOrigin
  BY DEF BatchKept, WindowOf
<1>2. CASE Undercut(id)
  <2>1. PICK later \in BatchIds :
          /\ later[1] = id[1]
          /\ batches[later].status # "NONEXISTENT"
          /\ WindowOf(later) < WindowOf(id)
          /\ batches[later].totalPausedAtBatchOrigin
               > batches[id].totalPausedAtBatchOrigin
    BY <1>2 DEF Undercut
  <2>2. BatchKept(later)
    BY <2>1, AddedOrKept DEF BatchAdded
  <2>3. /\ batches'[later].status # "NONEXISTENT"
        /\ WindowOf(later)' = WindowOf(later)
        /\ batches'[later].totalPausedAtBatchOrigin
             = batches[later].totalPausedAtBatchOrigin
    BY <2>1, <2>2 DEF BatchKept, WindowOf
  <2> QED BY <1>1, <2>1, <2>3 DEF Undercut
<1>3. CASE \E later \in BatchIds :
              /\ BatchAdded(later)
              /\ later[1] = id[1]
              /\ challengeWindowSeconds < WindowOf(id)
              /\ totalPausedSeconds > batches[id].totalPausedAtBatchOrigin
  BY <1>1, <1>3 DEF BatchAdded, Undercut, WindowOf
<1> QED BY <1>2, <1>3

(* The tracker keeps covering every pending batch, whichever way the window *)
(* moves: a commit under a window at least as long reaches further on both  *)
(* clocks, one under a shorter window without a pause in between is tracked *)
(* only if it reaches further on the wall clock, and the rest is undercut.  *)
LEMMA RaceStep == RaceInv /\ [NextBundled]_vars => RaceInv'
<1> SUFFICES ASSUME RaceInv, [NextBundled]_vars PROVE RaceInv'
  OBVIOUS
<1>1. [AnyStep]_vars /\ LedgerInv /\ LedgerInv'
  BY BundledIsAny, LedgerStep DEF RaceInv
<1>2. bondPaused' = registryPaused'
  BY PausesTogetherStep DEF RaceInv
<1>3. RegistryTypeOK /\ RegistryTypeOK' /\ PauseStarted /\ TrackerCovers
  BY <1>1 DEF LedgerInv, TypeInv, TypeOK, RaceInv
<1>4. /\ now \in Nat /\ totalPausedSeconds \in Nat /\ pauseStartedAt \in Nat
      /\ challengeWindowSeconds \in Nat
      /\ totalPausedSeconds' \in Nat
      /\ lastPendingBatchExpiry \in [Providers -> Nat]
      /\ lastPendingBatchPausedAtAccrual \in [Providers -> Nat]
      /\ lastPendingBatchExpiry' \in [Providers -> Nat]
      /\ lastPendingBatchPausedAtAccrual' \in [Providers -> Nat]
  BY <1>3, RegistryAssumption DEF RegistryTypeOK
<1>5. totalPausedSeconds' >= totalPausedSeconds
  <2>1. CASE UNCHANGED registryPauseVars
    BY <1>4, <2>1 DEF registryPauseVars
  <2>2. CASE PauseRegistry \/ UnpauseRegistry
    BY <1>3, <1>4, <2>2 DEF PauseRegistry, UnpauseRegistry, PauseStarted
  <2>3. UNCHANGED registryPauseVars \/ PauseRegistry \/ UnpauseRegistry
    BY <1>1, RegistryView, ClockView DEF Block, Tick, registryVars
  <2> QED BY <2>1, <2>2, <2>3
<1>0. ASSUME NEW p \in Providers
      PROVE  \/ /\ lastPendingBatchExpiry'[p] = lastPendingBatchExpiry[p]
                /\ lastPendingBatchPausedAtAccrual'[p] = lastPendingBatchPausedAtAccrual[p]
             \/ /\ lastPendingBatchPausedAtAccrual'[p] = totalPausedSeconds
                /\ lastPendingBatchExpiry'[p] = now + challengeWindowSeconds
                /\ lastPendingBatchExpiry[p] < lastPendingBatchExpiry'[p]
                /\ \E later \in BatchIds : BatchAdded(later) /\ later[1] = p
  <2>1. CASE UNCHANGED <<lastPendingBatchExpiry, lastPendingBatchPausedAtAccrual>>
    BY <2>1
  <2>2. ASSUME NEW later \in BatchIds, BatchAdded(later)
        PROVE  \/ /\ lastPendingBatchExpiry'[p] = lastPendingBatchExpiry[p]
                  /\ lastPendingBatchPausedAtAccrual'[p]
                       = lastPendingBatchPausedAtAccrual[p]
               \/ /\ lastPendingBatchPausedAtAccrual'[p] = totalPausedSeconds
                  /\ lastPendingBatchExpiry'[p] = now + challengeWindowSeconds
                  /\ lastPendingBatchExpiry[p] < lastPendingBatchExpiry'[p]
                  /\ later[1] = p
    <3>1. later[1] \in Providers /\ TrackPendingExpiry(later[1])
      BY <2>2 DEF BatchIds, BatchAdded
    <3> QED BY <1>3, <3>1, TrackerMoves
  <2> QED BY <1>3, <2>1, <2>2, TrackerView
<1>6. ASSUME NEW p \in Providers
      PROVE  lastPendingBatchPausedAtAccrual'[p] <= totalPausedSeconds'
  <2>1. lastPendingBatchPausedAtAccrual[p] <= totalPausedSeconds
    BY <1>3 DEF TrackerCovers
  <2>2. \/ lastPendingBatchPausedAtAccrual'[p] = lastPendingBatchPausedAtAccrual[p]
        \/ lastPendingBatchPausedAtAccrual'[p] = totalPausedSeconds
    BY <1>0
  <2> QED BY <1>4, <1>5, <2>1, <2>2
<1>7. ASSUME NEW id \in BatchIds, Pending(id)'
      PROVE  /\ batches'[id].commitTimestamp + WindowOf(id)'
                  <= lastPendingBatchExpiry'[id[1]]
             /\ ~Undercut(id)' =>
                   batches'[id].commitTimestamp + WindowOf(id)'
                     - batches'[id].totalPausedAtBatchOrigin
                   <= lastPendingBatchExpiry'[id[1]]
                        - lastPendingBatchPausedAtAccrual'[id[1]]
  <2> DEFINE p == id[1]
  <2>1. p \in Providers
    BY DEF BatchIds
  <2>2. CASE BatchAdded(id)
    <3>1. /\ now + challengeWindowSeconds - totalPausedSeconds
               <= lastPendingBatchExpiry'[p] - lastPendingBatchPausedAtAccrual'[p]
          /\ now + challengeWindowSeconds <= lastPendingBatchExpiry'[p]
      BY <1>3, <2>1, <2>2, TrackerMoves DEF BatchAdded
    <3>2. /\ batches'[id].commitTimestamp = now
          /\ batches'[id].totalPausedAtBatchOrigin = totalPausedSeconds
          /\ batches'[id].challengeWindowSecondsAtCommit = challengeWindowSeconds
      BY <2>2 DEF BatchAdded
    <3> QED BY <1>4, <3>1, <3>2 DEF WindowOf
  <2>3. CASE BatchKept(id)
    <3>1. /\ Pending(id)
          /\ WindowOf(id)' = WindowOf(id)
          /\ batches'[id].commitTimestamp = batches[id].commitTimestamp
          /\ batches'[id].totalPausedAtBatchOrigin = batches[id].totalPausedAtBatchOrigin
      BY <1>7, <2>3 DEF BatchKept, Pending, WindowOf
    <3>2. /\ batches[id].commitTimestamp \in Nat /\ WindowOf(id) \in Nat
          /\ batches[id].totalPausedAtBatchOrigin \in Nat /\ openSeconds[id] \in Nat
          /\ lastPendingBatchExpiry[p] \in Nat /\ lastPendingBatchExpiry'[p] \in Nat
          /\ lastPendingBatchPausedAtAccrual[p] \in Nat
      BY <1>1, <1>3, <1>4, <2>1 DEF RegistryTypeOK, Batch, WindowOf, LedgerInv, TypeInv,
         TypeOK
    <3>3. /\ batches[id].commitTimestamp + WindowOf(id) <= lastPendingBatchExpiry[p]
          /\ ~Undercut(id)' =>
                batches[id].commitTimestamp + WindowOf(id)
                  - batches[id].totalPausedAtBatchOrigin
                <= lastPendingBatchExpiry[p] - lastPendingBatchPausedAtAccrual[p]
      BY <1>1, <1>3, <2>3, <3>1, UndercutGrows DEF TrackerCovers
    <3>4. CASE /\ lastPendingBatchExpiry'[p] = lastPendingBatchExpiry[p]
               /\ lastPendingBatchPausedAtAccrual'[p] = lastPendingBatchPausedAtAccrual[p]
      BY <3>1, <3>3, <3>4
    <3>5. CASE /\ lastPendingBatchPausedAtAccrual'[p] = totalPausedSeconds
               /\ lastPendingBatchExpiry'[p] = now + challengeWindowSeconds
               /\ lastPendingBatchExpiry[p] < lastPendingBatchExpiry'[p]
               /\ \E later \in BatchIds : BatchAdded(later) /\ later[1] = p
      <4>1. batches[id].commitTimestamp + WindowOf(id) <= lastPendingBatchExpiry'[p]
        BY <3>2, <3>3, <3>5
      <4>2. ~registryPaused
        BY <3>5 DEF BatchAdded
      <4>3. now - batches[id].commitTimestamp
              - (totalPausedSeconds - batches[id].totalPausedAtBatchOrigin) - 0
            = openSeconds[id]
        BY <1>1, <3>1, <4>2 DEF LedgerInv, PauseLedgerExact
      <4>4. ASSUME ~Undercut(id)'
            PROVE  \/ WindowOf(id) <= challengeWindowSeconds
                   \/ totalPausedSeconds <= batches[id].totalPausedAtBatchOrigin
        <5>1. ~(/\ challengeWindowSeconds < WindowOf(id)
                /\ totalPausedSeconds > batches[id].totalPausedAtBatchOrigin)
          BY <1>1, <1>3, <2>3, <3>5, <4>4, UndercutGrows
        <5> QED BY <1>4, <3>2, <5>1
      <4>5. ASSUME ~Undercut(id)'
            PROVE  batches[id].commitTimestamp + WindowOf(id)
                     - batches[id].totalPausedAtBatchOrigin
                   <= lastPendingBatchExpiry'[p] - totalPausedSeconds
        <5>1. CASE WindowOf(id) <= challengeWindowSeconds
          BY <1>4, <3>2, <3>5, <4>3, <5>1
        <5>2. CASE totalPausedSeconds <= batches[id].totalPausedAtBatchOrigin
          BY <1>4, <3>2, <4>1, <5>2
        <5> QED BY <4>4, <4>5, <5>1, <5>2
      <4> QED BY <3>1, <3>5, <4>1, <4>5
    <3> QED BY <1>0, <2>1, <3>4, <3>5
  <2> QED BY <1>1, <1>3, <2>2, <2>3, AddedOrKept
<1> QED BY <1>1, <1>2, <1>6, <1>7 DEF RaceInv, TrackerCovers

(* A fresh deployment has no pending batch and no pause. *)
LEMMA RaceInit == Init => RaceInv
<1> SUFFICES ASSUME Init PROVE RaceInv
  OBVIOUS
<1>1. LedgerInv
  BY LedgerInit
<1>2. bondPaused = registryPaused
  BY DEF Init, RegistryInit, StakeInit
<1>3. TrackerCovers
  BY DEF Init, RegistryInit, EmptyBatch, TrackerCovers, Pending
<1> QED BY <1>1, <1>2, <1>3 DEF RaceInv

(* The invariant is what the bond contract relies on: its floor reaches     *)
(* every pending batch's pause-adjusted expiry (_pendingExpiryFloor).       *)
LEMMA RaceInvCovers == RaceInv => FloorCoversPending
<1> SUFFICES ASSUME RaceInv, NEW id \in BatchIds, Pending(id), ~Undercut(id)
             PROVE  batches[id].commitTimestamp + WindowOf(id)
                      + (totalPausedSeconds - batches[id].totalPausedAtBatchOrigin)
                    <= PendingExpiryFloor(id[1])
  BY DEF FloorCoversPending
<1>1. id[1] \in Providers
  BY DEF BatchIds
<1>2. RegistryTypeOK
  BY DEF RaceInv, LedgerInv, TypeInv, TypeOK
<1>3. /\ totalPausedSeconds \in Nat
      /\ batches[id].commitTimestamp \in Nat /\ WindowOf(id) \in Nat
      /\ batches[id].totalPausedAtBatchOrigin \in Nat
      /\ lastPendingBatchExpiry[id[1]] \in Nat
      /\ lastPendingBatchPausedAtAccrual[id[1]] \in Nat
  BY <1>1, <1>2 DEF RegistryTypeOK, Batch, WindowOf
<1>4. /\ batches[id].commitTimestamp + WindowOf(id)
           - batches[id].totalPausedAtBatchOrigin
         <= lastPendingBatchExpiry[id[1]] - lastPendingBatchPausedAtAccrual[id[1]]
      /\ lastPendingBatchPausedAtAccrual[id[1]] <= totalPausedSeconds
  BY <1>1 DEF RaceInv, TrackerCovers
<1> QED BY <1>3, <1>4 DEF PendingExpiryFloor

(* Only withdraw moves a stake from UNBONDING to WITHDRAWN. *)
LEMMA OnlyWithdrawLeaves ==
    ASSUME StakeTypeOK, StakeCall, NEW p \in Providers,
           stakes[p].status = "UNBONDING", stakes'[p].status = "WITHDRAWN"
    PROVE  WithdrawStake(p)
<1> USE DEF StakeTypeOK
<1>1. ASSUME NEW q \in Providers, NEW amount \in BondAmounts, NEW rate \in SlashRates,
             Bond(q, amount, rate)
      PROVE  FALSE
  BY <1>1 DEF Bond
<1>2. ASSUME NEW q \in Providers, RequestUnbond(q)
      PROVE  FALSE
  BY <1>2 DEF RequestUnbond, Stake
<1>3. ASSUME NEW q \in Providers, WithdrawStake(q)
      PROVE  q = p
  BY <1>3 DEF WithdrawStake, Stake
<1>4. ASSUME NEW q \in Providers, NEW a \in Credited, Slash(q, a)
      PROVE  FALSE
  <2>1. stakes' = [stakes EXCEPT ![q].amount = @ - SlashAmount(q)]
    BY <1>4 DEF Slash
  <2> QED BY <2>1 DEF Stake
<1>5. ASSUME \/ \E a \in Accounts : ClaimBounty(a)
             \/ \E d \in UnbondDelays : SetUnbondDelay(d)
             \/ \E a \in StorageSlashers : SetStorageSlasherOnce(a)
             \/ \E a \in ReserveWallets : SetFoundationReserveWallet(a)
             \/ DrainFoundationReserve \/ PauseBond \/ UnpauseBond
      PROVE  FALSE
  <2>1. stakes' = stakes
    BY <1>5 DEF ClaimBounty, SetUnbondDelay, SetStorageSlasherOnce,
       SetFoundationReserveWallet, DrainFoundationReserve, PauseBond, UnpauseBond
  <2> QED BY <2>1
<1> QED BY <1>1, <1>2, <1>3, <1>4, <1>5 DEF StakeCall

(* Under the pause bundle the floor StakeBond reads from the registry       *)
(* reaches every pending batch of the provider that is not undercut,        *)
(* whichever way the owner moves the window (_commitBatch's max comparison  *)
(* and the pause total it records with the expiry).                         *)
THEOREM FloorCorrect == SpecBundled => []FloorCoversPending
  BY RaceInit, RaceStep, RaceInvCovers, PTL DEF SpecBundled

(* Under the pause bundle no provider takes its stake out while one of its  *)
(* batches that is not undercut can still be challenged, in whatever order  *)
(* it commits, unbonds and withdraws around pauses and changes of the       *)
(* window (requestUnbond, withdraw).                                        *)
THEOREM NoStakeEscapes == SpecBundled => WithdrawOnlyAfterExpiry
<1> DEFINE Stays == \A id \in BatchIds :
          (/\ Pending(id)
           /\ ~Undercut(id)
           /\ stakes[id[1]].status = "UNBONDING"
           /\ stakes'[id[1]].status = "WITHDRAWN")
             => openSeconds[id] >= WindowOf(id)
<1>1. ASSUME RaceInv, [NextBundled]_vars
      PROVE  Stays
  <2> SUFFICES ASSUME NEW id \in BatchIds, Pending(id), ~Undercut(id),
                      stakes[id[1]].status = "UNBONDING",
                      stakes'[id[1]].status = "WITHDRAWN"
               PROVE  openSeconds[id] >= WindowOf(id)
    OBVIOUS
  <2>1. id[1] \in Providers
    BY DEF BatchIds
  <2>2. LedgerInv /\ RegistryTypeOK /\ StakeTypeOK /\ openSeconds[id] \in Nat
    BY <1>1 DEF RaceInv, LedgerInv, TypeInv, TypeOK
  <2>3. StakeCall
    BY <1>1, <2>1, BundledIsAny, StakeView DEF stakeVars
  <2>4. WithdrawStake(id[1])
    BY <2>1, <2>2, <2>3, OnlyWithdrawLeaves
  <2>5. ~registryPaused /\ now >= PendingExpiryFloor(id[1])
    BY <1>1, <2>4 DEF WithdrawStake, RaceInv
  <2>6. batches[id].commitTimestamp + WindowOf(id)
          + (totalPausedSeconds - batches[id].totalPausedAtBatchOrigin)
        <= PendingExpiryFloor(id[1])
    BY <1>1, RaceInvCovers DEF FloorCoversPending
  <2>7. now - batches[id].commitTimestamp
          - (totalPausedSeconds - batches[id].totalPausedAtBatchOrigin) - 0
        = openSeconds[id]
    BY <2>2, <2>5 DEF LedgerInv, PauseLedgerExact
  <2>8. /\ now \in Nat /\ totalPausedSeconds \in Nat
        /\ batches[id].commitTimestamp \in Nat /\ WindowOf(id) \in Nat
        /\ batches[id].totalPausedAtBatchOrigin \in Nat
    BY <2>2 DEF RegistryTypeOK, Batch, WindowOf
  <2>9. PendingExpiryFloor(id[1]) \in Nat
    BY <2>1, <2>2 DEF RegistryTypeOK, PendingExpiryFloor
  <2> QED BY <2>2, <2>5, <2>6, <2>7, <2>8, <2>9
<1>2. RaceInv /\ [NextBundled]_vars => [Stays]_vars
  BY <1>1
<1> HIDE DEF Stays
<1>3. SpecBundled => [][Stays]_vars
  BY RaceInit, RaceStep, <1>2, PTL DEF SpecBundled
<1> QED BY <1>3 DEF Stays, WithdrawOnlyAfterExpiry

(* What a change of configuration leaves alone. *)
Judged == <<now, batches, registryPauseVars, stakeVars>>

(* A step that changes the configuration changes nothing that is judged. *)
LEMMA ConfigView ==
    ASSUME [Next]_vars, configVars' # configVars
    PROVE  UNCHANGED Judged
<1> USE DEF Judged
<1>1. CASE OwnerRegistryStep
  BY <1>1 DEF OwnerRegistryStep, SetSettlementLookbackWindow, SetEscrowPool,
     SetStakeBond, SetSignatureVerifier, batchVars
<1>2. CASE \E w \in Windows : SetWindow(w)
  BY <1>2 DEF SetWindow, SetChallengeWindowSeconds, batchVars
<1>3. CASE RegistryStep
  BY <1>3 DEF RegistryStep, Commit, Finalize, Challenge, CommitBatch, FinalizeBatch,
     InvalidateReceipt
<1>4. CASE Block
  BY <1>4 DEF Block, Tick, registryVars
<1>5. CASE PauseRegistryAlone
  BY <1>5 DEF PauseRegistryAlone, PauseRegistry, UnpauseRegistry
<1>6. CASE UNCHANGED <<now, registryVars>>
  BY <1>6 DEF registryVars
<1>7. \/ RegistryStep \/ OwnerRegistryStep \/ (\E w \in Windows : SetWindow(w))
      \/ Block \/ PauseRegistryAlone \/ UNCHANGED <<now, registryVars>>
  BY DEF Next, UserStep, OwnerStep, StorageSlash, StakeStep, PoolStep, OwnerStakeStep,
     OwnerPoolStep, PauseBondAlone, vars
<1> QED BY <1>1, <1>2, <1>3, <1>4, <1>5, <1>6, <1>7

(* The owner rejudges nothing: no change of a window or of a wired contract *)
(* alters what can be proven against a committed batch, whether it can be   *)
(* finalized and from which pool, or where and whether its provider can be  *)
(* slashed (the AtCommit snapshots of _commitBatch).                        *)
THEOREM ConfigurationPinned == Spec => OwnerRejudgesNothing
<1> DEFINE Kept == configVars' # configVars =>
          \A id \in BatchIds : batches[id].status # "NONEXISTENT" =>
             /\ IsFinalizable(id)' = IsFinalizable(id)
             /\ FinalValue(batches'[id]) = FinalValue(batches[id])
             /\ PayingPool(id)' = PayingPool(id)
             /\ SlashedBond(id)' = SlashedBond(id)
             /\ Slashable(id[1])' = Slashable(id[1])
             /\ \A caller \in Accounts, reason \in Reasons :
                   \A leaf \in batches[id].merkleRoot :
                      Proven(id, leaf, reason, caller)'
                         = Proven(id, leaf, reason, caller)
<1>1. ASSUME [Next]_vars
      PROVE  Kept
  <2> SUFFICES ASSUME configVars' # configVars, NEW id \in BatchIds
               PROVE  /\ IsFinalizable(id)' = IsFinalizable(id)
                      /\ FinalValue(batches'[id]) = FinalValue(batches[id])
                      /\ PayingPool(id)' = PayingPool(id)
                      /\ SlashedBond(id)' = SlashedBond(id)
                      /\ Slashable(id[1])' = Slashable(id[1])
                      /\ \A caller \in Accounts, reason \in Reasons :
                            \A leaf \in batches[id].merkleRoot :
                               Proven(id, leaf, reason, caller)'
                                  = Proven(id, leaf, reason, caller)
    OBVIOUS
  <2>1. /\ now' = now /\ batches' = batches
        /\ totalPausedSeconds' = totalPausedSeconds
        /\ stakes' = stakes /\ bondPaused' = bondPaused
    BY <1>1, ConfigView DEF Judged, registryPauseVars, stakeVars
  <2>2. IsFinalizable(id)' = IsFinalizable(id)
    BY <2>1 DEF IsFinalizable, EffectiveElapsed
  <2>3. FinalValue(batches'[id]) = FinalValue(batches[id])
    BY <2>1
  <2>4. Slashable(id[1])' = Slashable(id[1])
    BY <2>1 DEF Slashable, SlashAmount
  <2>6. PayingPool(id)' = PayingPool(id) /\ SlashedBond(id)' = SlashedBond(id)
    BY <2>1 DEF PayingPool, SlashedBond
  <2>5. ASSUME NEW caller \in Accounts, NEW reason \in Reasons,
               NEW leaf \in batches[id].merkleRoot
        PROVE  Proven(id, leaf, reason, caller)' = Proven(id, leaf, reason, caller)
    BY <2>1 DEF Proven, HandleDoubleSpend, HandleInvalidSignature, HandleNoEscrow,
       HandleExpired, HandleConsensusMismatch
  <2> QED BY <2>2, <2>3, <2>4, <2>5, <2>6
<1>2. [Next]_vars => [Kept]_vars
  BY <1>1
<1> HIDE DEF Kept
<1>3. Spec => [][Kept]_vars
  BY <1>2, PTL DEF Spec
<1> QED BY <1>3 DEF Kept, OwnerRejudgesNothing

--------------------------------------------------------------------------------
(****************************************************************************)
(* The money.  What each contract owes is a sum over addresses; SumTheorems *)
(* says how the sum moves when one address's amount does.                   *)
(****************************************************************************)
StakeAmounts == [p \in Providers |-> stakes[p].amount]

(* The bond contract holds the stakes, the bounties and the reserve. *)
LedgerBalanced ==
    bondHoldings = SumFunctionOnSet(StakeAmounts, Providers)
                     + SumFunctionOnSet(slashedBountyPayable, Accounts)
                     + foundationReserveBalance

(* Who is not bonded has nothing at stake. *)
LeftWithNothing ==
    \A p \in Providers : stakes[p].status \in {"NONE", "WITHDRAWN"} => stakes[p].amount = 0

(* The sum as the property writes it is the sum of the ledger's column. *)
LEMMA StakeSum ==
    MapThenSumSet(StakeAmount, Providers) = SumFunctionOnSet(StakeAmounts, Providers)
<1> DEFINE h == CHOOSE g : g = [s \in SUBSET Providers |->
                    IF s = {} THEN 0
                    ELSE StakeAmount(Pick(s)) + g[s \ {Pick(s)}]]
<1>1. MapThenSumSet(StakeAmount, Providers) = h[Providers]
  BY DEF MapThenSumSet, MapThenFoldSet, Pick
<1>2. IsFiniteSet(Providers)
  BY FinitelyMany, FS_Subset DEF Accounts
<1>3. PICK k : IsSum(k, StakeAmounts, Providers)
  BY <1>2, SumExists
<1>4. ASSUME NEW g
      PROVE  IsSum(g, StakeAmounts, Providers)
                <=> g = [s \in SUBSET Providers |->
                    IF s = {} THEN 0
                    ELSE StakeAmount(Pick(s)) + g[s \ {Pick(s)}]]
  <2>1. ASSUME NEW s \in SUBSET Providers, s # {}
        PROVE  StakeAmounts[Pick(s)] = StakeAmount(Pick(s))
    BY <2>1, PickedFrom DEF StakeAmounts, StakeAmount
  <2> QED BY <2>1 DEF IsSum
<1>5. IsSum(h, StakeAmounts, Providers)
  BY <1>3, <1>4
<1> HIDE DEF h
<1> QED BY <1>1, <1>2, <1>5, SumIsTable

(* Likewise for the bounties. *)
LEMMA BountySum ==
    MapThenSumSet(Bounty, Accounts) = SumFunctionOnSet(slashedBountyPayable, Accounts)
  BY DEF MapThenSumSet, SumFunctionOnSet, FoldFunctionOnSet, MapThenFoldSet, Bounty

(* A call that sets one stake moves the sum of the stakes by as much. *)
LEMMA StakeMoves ==
    ASSUME StakeTypeOK, StakeTypeOK', NEW p \in Providers, NEW s,
           stakes' = [stakes EXCEPT ![p] = s]
    PROVE  SumFunctionOnSet(StakeAmounts', Providers)
              = SumFunctionOnSet(StakeAmounts, Providers) - stakes[p].amount + s.amount
<1>1. IsFiniteSet(Providers)
  BY FinitelyMany, FS_Subset DEF Accounts
<1>2. \A q \in Providers : StakeAmounts[q] \in Int /\ StakeAmounts'[q] \in Int
  BY DEF StakeAmounts, StakeTypeOK, Stake
<1>3. \A q \in Providers \ {p} : StakeAmounts'[q] = StakeAmounts[q]
  BY DEF StakeAmounts, StakeTypeOK
<1>4. StakeAmounts[p] = stakes[p].amount /\ StakeAmounts'[p] = s.amount
  BY DEF StakeAmounts, StakeTypeOK
<1> QED BY <1>1, <1>2, <1>3, <1>4, SumChange

(* A call that sets one bounty moves the sum of the bounties by as much. *)
LEMMA BountyMoves ==
    ASSUME StakeTypeOK, StakeTypeOK', NEW a \in Accounts, NEW v,
           slashedBountyPayable' = [slashedBountyPayable EXCEPT ![a] = v]
    PROVE  SumFunctionOnSet(slashedBountyPayable', Accounts)
              = SumFunctionOnSet(slashedBountyPayable, Accounts)
                   - slashedBountyPayable[a] + v
<1>1. IsFiniteSet(Accounts)
  BY FinitelyMany
<1> DEFINE f == slashedBountyPayable
           g == slashedBountyPayable'
<1>2. /\ \A b \in Accounts : f[b] \in Int /\ g[b] \in Int
      /\ \A b \in Accounts \ {a} : g[b] = f[b]
      /\ g[a] = v
  BY DEF StakeTypeOK
<1> HIDE DEF f, g
<1>3. SumFunctionOnSet(g, Accounts) = SumFunctionOnSet(f, Accounts) - f[a] + g[a]
  BY <1>1, <1>2, SumChange
<1> QED BY <1>2, <1>3 DEF f, g

(* The sums are numbers. *)
LEMMA BondSums ==
    ASSUME StakeTypeOK
    PROVE  /\ SumFunctionOnSet(StakeAmounts, Providers) \in Int
           /\ SumFunctionOnSet(slashedBountyPayable, Accounts) \in Int
<1>1. IsFiniteSet(Providers) /\ IsFiniteSet(Accounts)
  BY FinitelyMany, FS_Subset DEF Accounts
<1>2. /\ \A q \in Providers : StakeAmounts[q] \in Int
      /\ \A b \in Accounts : slashedBountyPayable[b] \in Int
  BY DEF StakeAmounts, StakeTypeOK, Stake
<1> QED BY <1>1, <1>2, SumInt

(* Every call of the bond contract keeps its ledger balanced. *)
LEMMA BondLedgerStep ==
    ASSUME StakeTypeOK, StakeTypeOK', LeftWithNothing, LedgerBalanced,
           StakeCall \/ UNCHANGED stakeVars
    PROVE  LedgerBalanced'
<1> DEFINE staked == SumFunctionOnSet(StakeAmounts, Providers)
           stakedNext == SumFunctionOnSet(StakeAmounts', Providers)
           bounties == SumFunctionOnSet(slashedBountyPayable, Accounts)
           bountiesNext == SumFunctionOnSet(slashedBountyPayable', Accounts)
<1>1. staked \in Int /\ bounties \in Int /\ foundationReserveBalance \in Nat
  BY BondSums DEF StakeTypeOK
<1>2. bondHoldings = staked + bounties + foundationReserveBalance
  BY DEF LedgerBalanced
<1>3. SUFFICES bondHoldings' = stakedNext + bountiesNext + foundationReserveBalance'
  BY DEF LedgerBalanced
<1>4. stakes' = stakes => stakedNext = staked
  BY DEF StakeAmounts
<1>5. slashedBountyPayable' = slashedBountyPayable => bountiesNext = bounties
  OBVIOUS
<1>6. ASSUME NEW p \in Providers, NEW s, stakes' = [stakes EXCEPT ![p] = s]
      PROVE  stakedNext = staked - stakes[p].amount + s.amount
  BY <1>6, StakeMoves
<1>7. ASSUME NEW a \in Accounts, NEW v,
             slashedBountyPayable' = [slashedBountyPayable EXCEPT ![a] = v]
      PROVE  bountiesNext = bounties - slashedBountyPayable[a] + v
  BY <1>7, BountyMoves
<1>8. \A p \in Providers : stakes[p].amount \in Nat
  BY DEF StakeTypeOK, Stake
<1>9. \A a \in Accounts : slashedBountyPayable[a] \in Nat
  BY DEF StakeTypeOK
<1> HIDE DEF staked, stakedNext, bounties, bountiesNext
<1>10. ASSUME NEW p \in Providers, NEW amount \in BondAmounts, NEW rate \in SlashRates,
              Bond(p, amount, rate)
       PROVE  bondHoldings' = stakedNext + bountiesNext + foundationReserveBalance'
  <2> DEFINE s == [amount |-> amount, unbond_eligible_at |-> 0, status |-> "BONDED",
                   tier_slash_rate_bps |-> rate]
  <2>1. stakes' = [stakes EXCEPT ![p] = s] /\ s.amount = amount /\ amount \in Nat
    BY <1>10, StakeAssumption DEF Bond
  <2> HIDE DEF s
  <2>2. stakedNext = staked - stakes[p].amount + amount
    BY <1>6, <2>1
  <2>3. stakes[p].amount = 0
    BY <1>10 DEF Bond, LeftWithNothing
  <2> QED BY <1>1, <1>2, <1>5, <1>10, <2>1, <2>2, <2>3 DEF Bond
<1>11. ASSUME NEW p \in Providers, RequestUnbond(p)
       PROVE  bondHoldings' = stakedNext + bountiesNext + foundationReserveBalance'
  <2>1. PICK t : stakes' = [stakes EXCEPT ![p].status = "UNBONDING",
                                          ![p].unbond_eligible_at = t]
    BY <1>11 DEF RequestUnbond
  <2> DEFINE s == [stakes[p] EXCEPT !.status = "UNBONDING", !.unbond_eligible_at = t]
  <2>2. stakes' = [stakes EXCEPT ![p] = s] /\ s.amount = stakes[p].amount
    BY <2>1 DEF StakeTypeOK, Stake
  <2> HIDE DEF s
  <2>4. stakedNext = staked - stakes[p].amount + s.amount
    BY <1>6, <2>2
  <2>3. stakedNext = staked
    BY <1>1, <1>8, <2>2, <2>4
  <2> QED BY <1>2, <1>5, <1>11, <2>3 DEF RequestUnbond
<1>12. ASSUME NEW p \in Providers, WithdrawStake(p)
       PROVE  bondHoldings' = stakedNext + bountiesNext + foundationReserveBalance'
  <2> DEFINE s == [stakes[p] EXCEPT !.amount = 0, !.status = "WITHDRAWN"]
  <2>2. stakes' = [stakes EXCEPT ![p] = s] /\ s.amount = 0
    BY <1>12 DEF WithdrawStake, StakeTypeOK, Stake
  <2> HIDE DEF s
  <2>4. stakedNext = staked - stakes[p].amount + s.amount
    BY <1>6, <2>2
  <2>3. stakedNext = staked - stakes[p].amount
    BY <1>1, <1>8, <2>2, <2>4
  <2> QED BY <1>1, <1>2, <1>5, <1>8, <1>12, <2>3 DEF WithdrawStake
<1>13. ASSUME NEW p \in Providers, NEW a \in Credited, Slash(p, a)
       PROVE  bondHoldings' = stakedNext + bountiesNext + foundationReserveBalance'
  <2> DEFINE s == [stakes[p] EXCEPT !.amount = @ - SlashAmount(p)]
             v == slashedBountyPayable[a] + ChallengerShare(p, a)
  <2>1. /\ SlashAmount(p) \in Int /\ ChallengerShare(p, a) \in Int
        /\ FoundationShare(p, a) = SlashAmount(p) - ChallengerShare(p, a)
    BY SlashShares DEF FoundationShare
  <2>2. stakes' = [stakes EXCEPT ![p] = s] /\ s.amount = stakes[p].amount - SlashAmount(p)
    BY <1>13 DEF Slash, StakeTypeOK, Stake
  <2> HIDE DEF s
  <2>3. stakedNext = staked - stakes[p].amount + s.amount
    BY <1>6, <2>2
  <2>4. stakedNext = staked - SlashAmount(p)
    BY <1>1, <1>8, <2>1, <2>2, <2>3
  <2>5. bountiesNext = bounties + ChallengerShare(p, a)
    <3>1. CASE NoBounty(p, a)
      <4>1. ChallengerShare(p, a) = 0
        BY <3>1 DEF ChallengerShare
      <4>2. slashedBountyPayable' = slashedBountyPayable
        BY <1>13, <3>1 DEF Slash
      <4> QED BY <1>1, <1>5, <4>1, <4>2
    <3>2. CASE ~NoBounty(p, a)
      <4>1. a \in Accounts
        BY <3>2 DEF NoBounty, Credited
      <4>2. slashedBountyPayable' = [slashedBountyPayable EXCEPT ![a] = v]
        BY <1>13, <3>2, <4>1 DEF Slash, StakeTypeOK
      <4>3. bountiesNext = bounties - slashedBountyPayable[a] + v
        BY <1>7, <4>1, <4>2
      <4> QED BY <1>1, <1>9, <2>1, <4>1, <4>3
    <3> QED BY <3>1, <3>2
  <2> QED BY <1>1, <1>2, <1>13, <2>1, <2>4, <2>5 DEF Slash
<1>14. ASSUME NEW a \in Accounts, ClaimBounty(a)
       PROVE  bondHoldings' = stakedNext + bountiesNext + foundationReserveBalance'
  <2>1. slashedBountyPayable' = [slashedBountyPayable EXCEPT ![a] = 0]
    BY <1>14 DEF ClaimBounty
  <2>3. bountiesNext = bounties - slashedBountyPayable[a] + 0
    BY <1>7, <2>1
  <2>2. bountiesNext = bounties - slashedBountyPayable[a]
    BY <1>1, <1>9, <2>3
  <2> QED BY <1>1, <1>2, <1>4, <1>9, <1>14, <2>2 DEF ClaimBounty
<1>15. CASE DrainFoundationReserve
  BY <1>1, <1>2, <1>4, <1>5, <1>15 DEF DrainFoundationReserve
<1>16. CASE \/ \E d \in UnbondDelays : SetUnbondDelay(d)
            \/ \E a \in StorageSlashers : SetStorageSlasherOnce(a)
            \/ \E a \in ReserveWallets : SetFoundationReserveWallet(a)
            \/ PauseBond \/ UnpauseBond
            \/ UNCHANGED stakeVars
  BY <1>1, <1>2, <1>4, <1>5, <1>16 DEF SetUnbondDelay, SetStorageSlasherOnce,
     SetFoundationReserveWallet, PauseBond, UnpauseBond, stakeVars
<1> QED
  BY <1>10, <1>11, <1>12, <1>13, <1>14, <1>15, <1>16 DEF StakeCall

(* withdraw empties a stake as it lets it go, and bond fills it again. *)
LEMMA LeftStep ==
    ASSUME StakeTypeOK, LeftWithNothing, StakeCall \/ UNCHANGED stakeVars
    PROVE  LeftWithNothing'
<1> USE DEF LeftWithNothing
<1>1. ASSUME NEW p \in Providers, NEW amount \in BondAmounts, NEW rate \in SlashRates,
             Bond(p, amount, rate)
      PROVE  LeftWithNothing'
  BY <1>1 DEF Bond, StakeTypeOK
<1>2. ASSUME NEW p \in Providers, RequestUnbond(p) \/ WithdrawStake(p)
      PROVE  LeftWithNothing'
  BY <1>2 DEF RequestUnbond, WithdrawStake, StakeTypeOK, Stake
<1>3. ASSUME NEW p \in Providers, NEW a \in Credited, Slash(p, a)
      PROVE  LeftWithNothing'
  <2>1. stakes[p].status \in {"BONDED", "UNBONDING"}
    BY <1>3 DEF Slash, Slashable
  <2>2. PICK v : stakes' = [stakes EXCEPT ![p].amount = v]
    BY <1>3 DEF Slash, StakeTypeOK
  <2> QED BY <2>1, <2>2 DEF StakeTypeOK, Stake
<1>4. CASE UNCHANGED stakes
  BY <1>4
<1>5. \/ \E p \in Providers, amount \in BondAmounts, rate \in SlashRates :
            Bond(p, amount, rate)
      \/ \E p \in Providers : RequestUnbond(p) \/ WithdrawStake(p)
      \/ \E p \in Providers, a \in Credited : Slash(p, a)
      \/ UNCHANGED stakes
  BY DEF StakeCall, ClaimBounty, SetUnbondDelay, SetStorageSlasherOnce, stakeVars,
     SetFoundationReserveWallet, DrainFoundationReserve, PauseBond, UnpauseBond
<1> QED BY <1>1, <1>2, <1>3, <1>4, <1>5

(* An active stake of tier size carries the tier's slash rate. *)
TierRate ==
    \A p \in Providers :
        (/\ stakes[p].status \in {"BONDED", "UNBONDING"}
         /\ stakes[p].amount >= StandardStake)
            => stakes[p].tier_slash_rate_bps >= 5000

(* bond asks for the rate, a slash lowers the amount and keeps the rate. *)
LEMMA TierStep ==
    ASSUME StakeTypeOK, TierRate, StakeCall \/ UNCHANGED stakeVars
    PROVE  TierRate'
<1> USE StakeAssumption DEF TierRate
<1>1. ASSUME NEW p \in Providers, NEW amount \in BondAmounts, NEW rate \in SlashRates,
             Bond(p, amount, rate)
      PROVE  TierRate'
  <2>1. amount \in Nat /\ rate \in Nat /\ (amount >= StandardStake => rate >= 5000)
    BY <1>1 DEF Bond, MinSlashRateForAmount, BPS
  <2> QED BY <1>1, <2>1 DEF Bond, StakeTypeOK
<1>2. ASSUME NEW p \in Providers, RequestUnbond(p) \/ WithdrawStake(p)
      PROVE  TierRate'
  BY <1>2 DEF RequestUnbond, WithdrawStake, StakeTypeOK, Stake
<1>3. ASSUME NEW p \in Providers, NEW a \in Credited, Slash(p, a)
      PROVE  TierRate'
  <2>1. SlashAmount(p) \in 0 .. stakes[p].amount /\ stakes[p].amount \in Nat
    BY SlashShares DEF StakeTypeOK, Stake
  <2>2. stakes' = [stakes EXCEPT ![p].amount = @ - SlashAmount(p)]
    BY <1>3 DEF Slash
  <2>3. stakes[p].amount - SlashAmount(p) <= stakes[p].amount
    BY <2>1
  <2> QED BY <2>1, <2>2, <2>3 DEF StakeTypeOK, Stake
<1>4. CASE UNCHANGED stakes
  BY <1>4
<1>5. \/ \E p \in Providers, amount \in BondAmounts, rate \in SlashRates :
            Bond(p, amount, rate)
      \/ \E p \in Providers : RequestUnbond(p) \/ WithdrawStake(p)
      \/ \E p \in Providers, a \in Credited : Slash(p, a)
      \/ UNCHANGED stakes
  BY DEF StakeCall, ClaimBounty, SetUnbondDelay, SetStorageSlasherOnce, stakeVars,
     SetFoundationReserveWallet, DrainFoundationReserve, PauseBond, UnpauseBond
<1> QED BY <1>1, <1>2, <1>3, <1>4, <1>5

(* Half of the amount, rounded down, is what half the basis points take. *)
LEMMA HalfTaken ==
    ASSUME NEW a \in Nat, NEW r \in 0 .. BPS, r >= 5000
    PROVE  2 * ((a * r) \div BPS) >= a - 1
<1> DEFINE x == a * r
           q == x \div 10000
<1>1. x \in Nat /\ x >= a * 5000
  OBVIOUS
<1> HIDE DEF x
<1>2. q \in Int /\ 10000 * q <= x /\ x < 10000 * q + 10000
  BY <1>1
<1> HIDE DEF q
<1>3. 2 * q >= a - 1
  BY <1>1, <1>2
<1> QED BY <1>3 DEF BPS, x, q

(* The invariant of the bond contract. *)
BondInv == TypeInv /\ LeftWithNothing /\ LedgerBalanced /\ TierRate

(* The bond contract starts empty. *)
LEMMA BondInit == Init => BondInv
<1> SUFFICES ASSUME Init PROVE BondInv
  OBVIOUS
<1>1. TypeInv
  BY TypeInit
<1>2. LeftWithNothing
  BY DEF Init, StakeInit, EmptyStake, LeftWithNothing
<1>3. TierRate
  BY DEF Init, StakeInit, EmptyStake, TierRate
<1>4. LedgerBalanced
  <2>1. /\ \A p \in Providers : StakeAmounts[p] = 0
        /\ \A a \in Accounts : slashedBountyPayable[a] = 0
    BY DEF Init, StakeInit, EmptyStake, StakeAmounts
  <2>2. IsFiniteSet(Providers) /\ IsFiniteSet(Accounts)
    BY FinitelyMany, FS_Subset DEF Accounts
  <2>3. /\ SumFunctionOnSet(StakeAmounts, Providers) = 0
        /\ SumFunctionOnSet(slashedBountyPayable, Accounts) = 0
    BY <2>1, <2>2, SumZero
  <2> QED BY <2>3 DEF Init, StakeInit, LedgerBalanced
<1> QED BY <1>1, <1>2, <1>3, <1>4 DEF BondInv

(* Every transaction keeps the bond contract's books. *)
LEMMA BondStep == BondInv /\ [AnyStep]_vars => BondInv'
<1> SUFFICES ASSUME BondInv, [AnyStep]_vars PROVE BondInv'
  OBVIOUS
<1>1. TypeInv /\ TypeInv' /\ (StakeCall \/ UNCHANGED stakeVars)
  BY TypeStep, StakeView DEF BondInv
<1>2. StakeTypeOK /\ StakeTypeOK'
  BY <1>1 DEF TypeInv, TypeOK
<1> QED BY <1>1, <1>2, LeftStep, BondLedgerStep, TierStep DEF BondInv

(* The bond contract is solvent: under every sequence of bonds, slashes     *)
(* with their 70/30 split, withdrawals, claims and drains, what it holds is *)
(* the stakes, the unclaimed bounties and the reserve, to the last unit.    *)
THEOREM BondIsSolvent == Spec => []BondSolvent
<1>1. BondInv /\ [Next]_vars => BondInv'
  BY BondStep DEF AnyStep
<1>2. BondInv => BondSolvent
  BY StakeSum, BountySum DEF BondInv, LedgerBalanced, BondSolvent
<1> QED BY BondInit, <1>1, <1>2, PTL DEF Spec

(* Who holds a tier can lose it: a proven fault takes at least half of an   *)
(* active stake of tier size (bond's floor on the rate, slash).             *)
THEOREM TierExposure == Spec => []TierIsExposed
<1>1. BondInv /\ [Next]_vars => BondInv'
  BY BondStep DEF AnyStep
<1>2. ASSUME BondInv PROVE TierIsExposed
  <2> SUFFICES ASSUME NEW p \in Providers,
                      stakes[p].status \in {"BONDED", "UNBONDING"},
                      stakes[p].amount >= StandardStake
               PROVE  2 * SlashAmount(p) >= stakes[p].amount - 1
    BY DEF TierIsExposed
  <2>1. /\ stakes[p].amount \in Nat
        /\ stakes[p].tier_slash_rate_bps \in 0 .. BPS
        /\ stakes[p].tier_slash_rate_bps >= 5000
    BY <1>2 DEF BondInv, TypeInv, TypeOK, StakeTypeOK, Stake, TierRate
  <2> QED BY <2>1, HalfTaken DEF SlashAmount
<1> QED BY BondInit, <1>1, <1>2, PTL DEF Spec

--------------------------------------------------------------------------------
(****************************************************************************)
(* Payments and challenges                                                  *)
(****************************************************************************)
accountVars == <<batches, invalidatedReceipts, paid, challengeLog>>

(* Only commitBatch, finalizeBatch and challengeReceipt touch batches and   *)
(* what is recorded about them.                                             *)
LEMMA AccountView ==
    ASSUME [AnyStep]_vars
    PROVE  RegistryStep \/ UNCHANGED accountVars
<1> USE DEF accountVars
<1>1. CASE \/ \E p \in Providers, challenger \in Credited : StorageSlash(p, challenger)
           \/ StakeStep \/ PoolStep \/ OwnerStakeStep \/ OwnerPoolStep
           \/ PauseBondAlone
  BY <1>1 DEF StorageSlash, StakeStep, PoolStep, OwnerStakeStep, OwnerPoolStep,
     PauseBondAlone, registryVars, batchVars, observers
<1>2. CASE OwnerRegistryStep \/ \E w \in Windows : SetWindow(w)
  BY <1>2 DEF OwnerRegistryStep, SetWindow, SetSettlementLookbackWindow, SetEscrowPool,
     SetStakeBond, SetSignatureVerifier, SetChallengeWindowSeconds, batchVars, observers
<1>3. CASE PauseRegistryAlone \/ PauseTogether
  BY <1>3 DEF PauseRegistryAlone, PauseTogether, PauseRegistry, UnpauseRegistry,
     batchVars, observers
<1>4. CASE Block
  BY <1>4 DEF Block, Tick, registryVars, batchVars
<1>5. CASE UNCHANGED vars
  BY <1>5 DEF vars, registryVars, batchVars, observers
<1> QED BY <1>1, <1>2, <1>3, <1>4, <1>5 DEF AnyStep, Next, UserStep, OwnerStep

(* Batch id exists. *)
Committed(id) == batches[id].status # "NONEXISTENT"

(* A batch that was committed keeps its parties, its leaves, its declared   *)
(* total and its time.                                                      *)
LEMMA CommittedKept ==
    ASSUME RegistryTypeOK, [AnyStep]_vars, NEW id \in BatchIds, Committed(id)
    PROVE  /\ Committed(id)'
           /\ batches'[id].requester = batches[id].requester
           /\ batches'[id].merkleRoot = batches[id].merkleRoot
           /\ batches'[id].totalValueFTNS = batches[id].totalValueFTNS
           /\ batches'[id].commitTimestamp = batches[id].commitTimestamp
<1> USE DEF Committed
<1>1. ASSUME NEW p \in Providers, NEW r \in Requesters, NEW root \in Roots,
             NEW total \in Totals, NEW group \in Groups,
             CommitBatch(p, r, root, total, group)
      PROVE  batches'[id] = batches[id]
  <2>1. id # <<p, providerBatchSequence[p]>>
    BY <1>1 DEF CommitBatch
  <2> QED BY <1>1, <2>1 DEF CommitBatch, RegistryTypeOK
<1>2. ASSUME NEW i \in BatchIds, FinalizeBatch(i)
      PROVE  \/ batches'[id] = batches[id]
             \/ batches'[id] = [batches[id] EXCEPT !.status = "FINALIZED"]
  BY <1>2 DEF FinalizeBatch, RegistryTypeOK
<1>3. ASSUME NEW caller \in Accounts, NEW i \in BatchIds, NEW reason \in Reasons,
             NEW leaf \in batches[i].merkleRoot,
             InvalidateReceipt(caller, i, leaf, reason)
      PROVE  \/ batches'[id] = batches[id]
             \/ \E v : batches'[id] = [batches[id] EXCEPT !.invalidatedValueFTNS = v]
  BY <1>3 DEF InvalidateReceipt, RegistryTypeOK
<1>4. batches[id] \in Batch
  BY DEF RegistryTypeOK
<1>5. \/ batches'[id] = batches[id]
      \/ batches'[id] = [batches[id] EXCEPT !.status = "FINALIZED"]
      \/ \E v : batches'[id] = [batches[id] EXCEPT !.invalidatedValueFTNS = v]
  BY AccountView, <1>1, <1>2, <1>3 DEF accountVars, RegistryStep, Commit, Finalize,
     Challenge
<1> QED BY <1>4, <1>5 DEF Batch

(* What is known of a batch: who pays, what its challenged leaves add up    *)
(* to, and what it paid.                                                    *)
LeafValues == [l \in ReceiptLeaves |-> l.value]

(* The value of the leaves of id that were challenged. *)
Invalidated(id) == SumFunctionOnSet(LeafValues, invalidatedReceipts[id])

(* The account of one batch. *)
Accounted(id) ==
    /\ Committed(id) => batches[id].requester \in Requesters
    /\ ~Committed(id) => invalidatedReceipts[id] = {}
    /\ batches[id].invalidatedValueFTNS = Invalidated(id)
    /\ paid[id] = IF batches[id].status = "FINALIZED" THEN FinalValue(batches[id]) ELSE 0

(* The sum as the property writes it is the sum of the leaves' values. *)
LEMMA LeafSum ==
    ASSUME NEW S, S \subseteq ReceiptLeaves
    PROVE  MapThenSumSet(LeafValue, S) = SumFunctionOnSet(LeafValues, S)
<1> DEFINE h == CHOOSE g : g = [s \in SUBSET S |->
                    IF s = {} THEN 0
                    ELSE LeafValue(Pick(s)) + g[s \ {Pick(s)}]]
<1>1. MapThenSumSet(LeafValue, S) = h[S]
  BY DEF MapThenSumSet, MapThenFoldSet, Pick
<1>2. IsFiniteSet(S)
  BY FinitelyMany, FS_Subset
<1>3. PICK k : IsSum(k, LeafValues, S)
  BY <1>2, SumExists
<1>4. ASSUME NEW g
      PROVE  IsSum(g, LeafValues, S)
                <=> g = [s \in SUBSET S |->
                    IF s = {} THEN 0
                    ELSE LeafValue(Pick(s)) + g[s \ {Pick(s)}]]
  <2>1. ASSUME NEW s \in SUBSET S, s # {}
        PROVE  LeafValues[Pick(s)] = LeafValue(Pick(s))
    <3>1. Pick(s) \in ReceiptLeaves
      BY <2>1, PickedFrom
    <3> QED BY <3>1 DEF LeafValues, LeafValue
  <2> QED BY <2>1 DEF IsSum
<1>5. IsSum(h, LeafValues, S)
  BY <1>3, <1>4
<1> HIDE DEF h
<1> QED BY <1>1, <1>2, <1>5, SumIsTable

(* Each call keeps the account of each batch: a challenge adds a leaf that  *)
(* was not invalidated yet, with its value, and finalizeBatch pays once.    *)
LEMMA AccountStep ==
    ASSUME TypeInv, TypeInv', [AnyStep]_vars, NEW id \in BatchIds, Accounted(id)
    PROVE  Accounted(id)'
<1> USE DEF Committed
<1>0. /\ batches \in [BatchIds -> Batch] /\ batches[id] \in Batch
      /\ invalidatedReceipts \in [BatchIds -> SUBSET ReceiptLeaves]
      /\ paid \in [BatchIds -> Nat]
      /\ RegistryTypeOK
  BY DEF TypeInv, TypeOK, RegistryTypeOK
<1>1. ASSUME UNCHANGED <<batches, invalidatedReceipts, paid>>
      PROVE  Accounted(id)'
  BY <1>1 DEF Accounted, Invalidated
<1>2. ASSUME batches'[id] = batches[id], paid'[id] = paid[id],
             invalidatedReceipts'[id] = invalidatedReceipts[id]
      PROVE  Accounted(id)'
  BY <1>2 DEF Accounted, Invalidated
<1>3. ASSUME NEW p \in Providers, NEW r \in Requesters, NEW root \in Roots,
             NEW total \in Totals, NEW group \in Groups,
             Commit(p, r, root, total, group)
      PROVE  Accounted(id)'
  <2>1. UNCHANGED <<invalidatedReceipts, paid>>
    BY <1>3 DEF Commit, CommitBatch, observers
  <2>2. CASE id # <<p, providerBatchSequence[p]>>
    BY <1>2, <1>3, <2>1, <2>2 DEF Commit, CommitBatch
  <2>3. CASE id = <<p, providerBatchSequence[p]>>
    <3>1. /\ batches[id].status = "NONEXISTENT"
          /\ batches'[id].requester = r
          /\ batches'[id].invalidatedValueFTNS = 0
          /\ batches'[id].status = "PENDING"
      BY <1>0, <1>3, <2>3 DEF Commit, CommitBatch
    <3>2. invalidatedReceipts'[id] = {} /\ paid'[id] = 0
      BY <2>1, <3>1 DEF Accounted
    <3>3. Invalidated(id)' = 0
      BY <3>2, SumEmpty DEF Invalidated
    <3> QED BY <3>1, <3>2, <3>3 DEF Accounted
  <2> QED BY <2>2, <2>3
<1>4. ASSUME NEW i \in BatchIds, Finalize(i)
      PROVE  Accounted(id)'
  <2>1. UNCHANGED invalidatedReceipts
    BY <1>4 DEF Finalize, FinalizeBatch
  <2>2. CASE id # i
    BY <1>0, <1>2, <1>4, <2>1, <2>2 DEF Finalize, FinalizeBatch
  <2>3. CASE id = i
    <3>1. batches'[id] = [batches[id] EXCEPT !.status = "FINALIZED"]
      BY <1>0, <1>4, <2>3 DEF Finalize, FinalizeBatch
    <3>2. paid'[id] = paid[id] + FinalValue(batches[id])
      BY <1>0, <1>4, <2>3 DEF Finalize
    <3>3. batches[id].status = "PENDING"
      BY <1>4, <2>3 DEF Finalize, FinalizeBatch, IsFinalizable
    <3>4. /\ batches'[id].status = "FINALIZED"
          /\ batches'[id].requester = batches[id].requester
          /\ batches'[id].invalidatedValueFTNS = batches[id].invalidatedValueFTNS
          /\ FinalValue(batches'[id]) = FinalValue(batches[id])
          /\ FinalValue(batches[id]) \in Int
      BY <1>0, <3>1 DEF Batch, FinalValue
    <3>5. paid'[id] = FinalValue(batches'[id])
      BY <3>2, <3>3, <3>4 DEF Accounted
    <3>6. Invalidated(id)' = Invalidated(id)
      BY <2>1 DEF Invalidated
    <3> QED BY <3>3, <3>4, <3>5, <3>6 DEF Accounted
  <2> QED BY <2>2, <2>3
<1>5. ASSUME NEW caller \in Accounts, NEW i \in BatchIds, NEW reason \in Reasons,
             NEW leaf \in batches[i].merkleRoot, Challenge(caller, i, leaf, reason)
      PROVE  Accounted(id)'
  <2>1. UNCHANGED paid
    BY <1>5 DEF Challenge
  <2>2. CASE id # i
    BY <1>0, <1>2, <1>5, <2>1, <2>2 DEF Challenge, InvalidateReceipt
  <2>3. CASE id = i
    <3>1. /\ batches'[id] = [batches[id] EXCEPT !.invalidatedValueFTNS = @ + leaf.value]
          /\ invalidatedReceipts'[id] = invalidatedReceipts[id] \cup {leaf}
          /\ leaf \notin invalidatedReceipts[id]
          /\ batches[id].status = "PENDING"
      BY <1>0, <1>5, <2>3 DEF Challenge, InvalidateReceipt
    <3>2. /\ batches'[id].invalidatedValueFTNS
               = batches[id].invalidatedValueFTNS + leaf.value
          /\ batches'[id].status = "PENDING"
          /\ batches'[id].requester = batches[id].requester
      BY <1>0, <3>1 DEF Batch
    <3>3. leaf \in ReceiptLeaves
      BY <1>0 DEF Batch
    <3> DEFINE S == invalidatedReceipts[id]
    <3>4. S \subseteq ReceiptLeaves /\ IsFiniteSet(S) /\ leaf \notin S
      BY <1>0, <3>1, FinitelyMany, FS_Subset
    <3>5. \A l \in ReceiptLeaves : LeafValues[l] = l.value /\ LeafValues[l] \in Int
      BY RegistryAssumption DEF LeafValues
    <3> HIDE DEF S
    <3>6. SumFunctionOnSet(LeafValues, S \cup {leaf})
             = SumFunctionOnSet(LeafValues, S) + LeafValues[leaf]
      BY <3>3, <3>4, <3>5, SumAdd
    <3>7. Invalidated(id)' = Invalidated(id) + leaf.value
      BY <3>1, <3>3, <3>5, <3>6 DEF Invalidated, S
    <3> QED BY <2>1, <3>1, <3>2, <3>7 DEF Accounted
  <2> QED BY <2>2, <2>3
<1> QED BY AccountView, <1>1, <1>3, <1>4, <1>5 DEF accountVars, RegistryStep

(* The invariant of the batches' accounts. *)
AccountInv == TypeInv /\ \A id \in BatchIds : Accounted(id)

(* No batch yet. *)
LEMMA AccountInit == Init => AccountInv
<1> SUFFICES ASSUME Init PROVE AccountInv
  OBVIOUS
<1>1. TypeInv
  BY TypeInit
<1>2. ASSUME NEW id \in BatchIds
      PROVE  Accounted(id)
  <2>1. batches[id] = EmptyBatch /\ invalidatedReceipts[id] = {} /\ paid[id] = 0
    BY DEF Init, RegistryInit
  <2>2. Invalidated(id) = 0
    BY <2>1, SumEmpty DEF Invalidated
  <2> QED BY <2>1, <2>2 DEF Accounted, Committed, EmptyBatch
<1> QED BY <1>1, <1>2 DEF AccountInv

(* The accounts are kept. *)
LEMMA AccountInvStep == AccountInv /\ [AnyStep]_vars => AccountInv'
<1> SUFFICES ASSUME AccountInv, [AnyStep]_vars PROVE AccountInv'
  OBVIOUS
<1>1. TypeInv /\ TypeInv'
  BY TypeStep DEF AccountInv
<1>2. ASSUME NEW id \in BatchIds
      PROVE  Accounted(id)'
  BY <1>1, AccountStep DEF AccountInv
<1> QED BY <1>1, <1>2 DEF AccountInv

(* A finalized batch has paid, once, its declared total less the value of   *)
(* exactly the leaves that were invalidated, and any other batch nothing    *)
(* (challengeReceipt's accumulator, finalizeBatch).                         *)
THEOREM PaymentIsNet == Spec => []PaidNetOfChallenges
<1>1. AccountInv /\ [Next]_vars => AccountInv'
  BY AccountInvStep DEF AnyStep
<1>2. ASSUME AccountInv PROVE PaidNetOfChallenges
  <2> SUFFICES ASSUME NEW id \in BatchIds
               PROVE  paid[id] = IF batches[id].status = "FINALIZED"
                                 THEN batches[id].totalValueFTNS
                                        - MapThenSumSet(LeafValue, invalidatedReceipts[id])
                                 ELSE 0
    BY DEF PaidNetOfChallenges
  <2>1. invalidatedReceipts[id] \subseteq ReceiptLeaves
    BY <1>2 DEF AccountInv, TypeInv, TypeOK, RegistryTypeOK
  <2>2. MapThenSumSet(LeafValue, invalidatedReceipts[id]) = Invalidated(id)
    BY <2>1, LeafSum DEF Invalidated
  <2> QED BY <1>2, <2>2 DEF AccountInv, Accounted, FinalValue
<1> QED BY AccountInit, <1>1, <1>2, PTL DEF Spec

--------------------------------------------------------------------------------
(* The pool holds, of the token it pays in, what its depositors have, and   *)
(* nothing of any other.                                                    *)
PoolBacked ==
    /\ totalEscrowedBalance = SumFunctionOnSet(balances, Depositors)
    /\ poolHoldings[ftns] = totalEscrowedBalance
    /\ \A t \in Tokens \ {ftns} : poolHoldings[t] = 0

(* The invariant of the escrow pool. *)
EscrowInv == AccountInv /\ PoolBacked

(* The sum as the property writes it. *)
LEMMA BalanceSum ==
    MapThenSumSet(Balance, Depositors) = SumFunctionOnSet(balances, Depositors)
  BY DEF MapThenSumSet, SumFunctionOnSet, FoldFunctionOnSet, MapThenFoldSet, Balance

(* A call that moves one balance and the pool's holdings by the same amount. *)
LEMMA BalanceMoves ==
    ASSUME PoolTypeOK, PoolTypeOK', PoolBacked, NEW r \in Depositors, NEW d \in Int,
           balances'[r] = balances[r] + d,
           \A q \in Depositors \ {r} : balances'[q] = balances[q],
           totalEscrowedBalance' = totalEscrowedBalance + d,
           poolHoldings'[ftns] = poolHoldings[ftns] + d,
           \A t \in Tokens \ {ftns} : poolHoldings'[t] = poolHoldings[t],
           ftns' = ftns
    PROVE  PoolBacked'
<1> DEFINE f == balances
           g == balances'
<1>1. /\ \A q \in Depositors : f[q] \in Int /\ g[q] \in Int
      /\ \A q \in Depositors \ {r} : g[q] = f[q]
      /\ g[r] = f[r] + d
  BY DEF PoolTypeOK
<1>2. SumFunctionOnSet(f, Depositors) = totalEscrowedBalance
      /\ totalEscrowedBalance \in Int
  BY DEF PoolBacked, PoolTypeOK
<1> HIDE DEF f, g
<1>3. SumFunctionOnSet(g, Depositors) = SumFunctionOnSet(f, Depositors) - f[r] + g[r]
  BY <1>1, FinitelyMany, SumChange
<1>4. SumFunctionOnSet(g, Depositors) = totalEscrowedBalance'
  BY <1>1, <1>2, <1>3
<1>5. totalEscrowedBalance' = SumFunctionOnSet(balances', Depositors)
  BY <1>4 DEF g
<1> QED BY <1>5 DEF PoolBacked, PoolTypeOK

(* Deposits, withdrawals and settlements keep the pool backed, and the      *)
(* token changes only while nothing is escrowed.                            *)
LEMMA PoolBackedStep ==
    ASSUME EscrowInv, TypeInv', [AnyStep]_vars
    PROVE  PoolBacked'
<1>0. PoolTypeOK /\ PoolTypeOK' /\ RegistryTypeOK /\ PoolBacked
  BY DEF EscrowInv, AccountInv, TypeInv, TypeOK
<1>1. ASSUME NEW r \in Depositors, NEW amount \in Int, PayOut(r, amount)
      PROVE  PoolBacked'
  <2>1. -amount \in Int
    BY <1>1
  <2>2. /\ balances'[r] = balances[r] + (-amount)
        /\ \A q \in Depositors \ {r} : balances'[q] = balances[q]
        /\ totalEscrowedBalance' = totalEscrowedBalance + (-amount)
        /\ poolHoldings'[ftns] = poolHoldings[ftns] + (-amount)
        /\ \A t \in Tokens \ {ftns} : poolHoldings'[t] = poolHoldings[t]
        /\ ftns' = ftns
    BY <1>0, <1>1 DEF PayOut, PoolTypeOK
  <2> QED BY <1>0, <2>1, <2>2, BalanceMoves
<1>2. ASSUME NEW r \in Depositors, NEW amount \in Amounts, Deposit(r, amount)
      PROVE  PoolBacked'
  <2>1. amount \in Int
    BY EscrowAssumption
  <2>2. /\ balances'[r] = balances[r] + amount
        /\ \A q \in Depositors \ {r} : balances'[q] = balances[q]
        /\ totalEscrowedBalance' = totalEscrowedBalance + amount
        /\ poolHoldings'[ftns] = poolHoldings[ftns] + amount
        /\ \A t \in Tokens \ {ftns} : poolHoldings'[t] = poolHoldings[t]
        /\ ftns' = ftns
    BY <1>0, <1>2 DEF Deposit, PoolTypeOK
  <2> QED BY <1>0, <2>1, <2>2, BalanceMoves
<1>3. ASSUME NEW t \in Tokens, SetFtnsToken(t)
      PROVE  PoolBacked'
  BY <1>0, <1>3 DEF SetFtnsToken, PoolBacked, PoolTypeOK
<1>4. CASE PausePool \/ UnpausePool \/ UNCHANGED poolVars
  BY <1>0, <1>4 DEF PausePool, UnpausePool, poolVars, PoolBacked
<1>5. ASSUME NEW id \in BatchIds, Finalize(id)
      PROVE  PoolBacked'
  <2>1. batches[id].requester \in Depositors /\ FinalValue(batches[id]) \in Int
    <3>1. Committed(id)
      BY <1>5 DEF Finalize, FinalizeBatch, IsFinalizable, Committed
    <3>2. batches[id].requester \in Requesters
      BY <3>1 DEF EscrowInv, AccountInv, Accounted
    <3>3. batches[id] \in Batch
      BY <1>0 DEF RegistryTypeOK
    <3> QED BY <3>2, <3>3, RequestersDeposit DEF Batch, FinalValue
  <2>2. \/ PayOut(batches[id].requester, FinalValue(batches[id]))
        \/ UNCHANGED poolVars
    BY <1>5 DEF Finalize, SettleFromRequester
  <2> QED BY <1>1, <1>4, <2>1, <2>2
<1>6. CASE PoolStep
  <2>1. Amounts \subseteq Int
    BY EscrowAssumption
  <2> QED BY <1>1, <1>2, <1>6, <2>1 DEF PoolStep, WithdrawEscrow
<1>7. CASE OwnerPoolStep
  BY <1>3, <1>4, <1>7 DEF OwnerPoolStep
<1>8. CASE RegistryStep
  BY <1>4, <1>5, <1>8 DEF RegistryStep, Commit, Challenge
<1>9. CASE \/ StakeStep \/ OwnerStakeStep \/ PauseBondAlone \/ PauseTogether \/ Block
           \/ OwnerRegistryStep \/ PauseRegistryAlone
  <2>1. UNCHANGED poolVars
    BY <1>9 DEF StakeStep, OwnerStakeStep, PauseBondAlone, PauseTogether, Block,
       OwnerRegistryStep, PauseRegistryAlone
  <2> QED BY <1>4, <2>1
<1>10. CASE \/ \E p \in Providers, challenger \in Credited : StorageSlash(p, challenger)
            \/ \E w \in Windows : SetWindow(w)
            \/ UNCHANGED vars
  <2>1. UNCHANGED poolVars
    BY <1>10 DEF StorageSlash, SetWindow, vars
  <2> QED BY <1>4, <2>1
<1> QED BY <1>6, <1>7, <1>8, <1>9, <1>10 DEF AnyStep, Next, UserStep, OwnerStep

(* Every escrow balance is backed by the token the pool pays in, to the     *)
(* last unit, across deposits, withdrawals, settlements of finalized        *)
(* batches and token rotations (totalEscrowedBalance, setFtnsToken).        *)
THEOREM EscrowIsBacked == Spec => []EscrowBacked
<1>1. EscrowInv /\ [Next]_vars => EscrowInv'
  <2> SUFFICES ASSUME EscrowInv, [Next]_vars PROVE EscrowInv'
    OBVIOUS
  <2>1. [AnyStep]_vars
    BY DEF AnyStep
  <2>2. AccountInv'
    BY <2>1, AccountInvStep DEF EscrowInv
  <2>3. TypeInv'
    BY <2>2 DEF AccountInv
  <2> QED BY <2>1, <2>2, <2>3, PoolBackedStep DEF EscrowInv
<1>2. Init => EscrowInv
  <2> SUFFICES ASSUME Init PROVE PoolBacked
    BY AccountInit DEF EscrowInv
  <2>1. \A r \in Depositors : balances[r] = 0
    BY DEF Init, PoolInit
  <2>2. SumFunctionOnSet(balances, Depositors) = 0
    BY <2>1, FinitelyMany, SumZero
  <2> QED BY <2>2 DEF Init, PoolInit, PoolBacked
<1>3. EscrowInv => EscrowBacked
  BY BalanceSum DEF EscrowInv, PoolBacked, EscrowBacked
<1> QED BY <1>1, <1>2, <1>3, PTL DEF Spec

--------------------------------------------------------------------------------
(* Behind every double-spend challenge there is a batch committed strictly  *)
(* earlier that holds the same leaf.                                        *)
EarlierHolder(c) ==
    /\ c.id \in BatchIds /\ Committed(c.id)
    /\ \E other \in BatchIds :
          /\ Committed(other)
          /\ batches[other].commitTimestamp < batches[c.id].commitTimestamp
          /\ c.leaf \in batches[other].merkleRoot

(* That holds of every entry of the log. *)
LogInv == \A c \in challengeLog : c.reason = "DOUBLE_SPEND" => EarlierHolder(c)

(* The invariant of double spends. *)
SpareInv == TypeInv /\ LogInv

(* The holder stays: commits touch no committed batch, and nothing else     *)
(* changes leaves or times.                                                 *)
LEMMA LogStep ==
    ASSUME TypeInv, LogInv, [AnyStep]_vars
    PROVE  LogInv'
<1>0. RegistryTypeOK
  BY DEF TypeInv, TypeOK
<1>1. ASSUME NEW c, EarlierHolder(c)
      PROVE  EarlierHolder(c)'
  <2>1. PICK other \in BatchIds :
          /\ Committed(other)
          /\ batches[other].commitTimestamp < batches[c.id].commitTimestamp
          /\ c.leaf \in batches[other].merkleRoot
    BY <1>1 DEF EarlierHolder
  <2>2. c.id \in BatchIds /\ Committed(c.id)
    BY <1>1 DEF EarlierHolder
  <2>3. /\ Committed(other)' /\ Committed(c.id)'
        /\ batches'[other].merkleRoot = batches[other].merkleRoot
        /\ batches'[other].commitTimestamp = batches[other].commitTimestamp
        /\ batches'[c.id].commitTimestamp = batches[c.id].commitTimestamp
    BY <1>0, <2>1, <2>2, CommittedKept
  <2> QED BY <2>1, <2>2, <2>3 DEF EarlierHolder
<1>2. CASE challengeLog' = challengeLog
  BY <1>1, <1>2 DEF LogInv
<1>3. ASSUME NEW caller \in Accounts, NEW id \in BatchIds, NEW reason \in Reasons,
             NEW leaf \in batches[id].merkleRoot, Challenge(caller, id, leaf, reason)
      PROVE  LogInv'
  <2>1. PICK flag : challengeLog' = challengeLog \cup
            {[id |-> id, leaf |-> leaf, reason |-> reason, swallowed |-> flag]}
    BY <1>3 DEF Challenge
  <2> DEFINE c == [id |-> id, leaf |-> leaf, reason |-> reason, swallowed |-> flag]
  <2>2. reason = "DOUBLE_SPEND" => EarlierHolder(c)
    BY <1>3 DEF Challenge, InvalidateReceipt, Proven, HandleDoubleSpend, EarlierHolder,
       Committed
  <2>3. challengeLog' = challengeLog \cup {c} /\ c.reason = reason
    BY <2>1
  <2> HIDE DEF c
  <2> QED BY <1>1, <2>2, <2>3 DEF LogInv
<1>4. \/ challengeLog' = challengeLog
      \/ \E caller \in Accounts, id \in BatchIds, reason \in Reasons :
            \E leaf \in batches[id].merkleRoot : Challenge(caller, id, leaf, reason)
  BY AccountView DEF accountVars, RegistryStep, Commit, Finalize, observers
<1> QED BY <1>2, <1>3, <1>4

(* Double-spend challenges never wipe out a receipt: of the batches that    *)
(* hold a challenged leaf, the earliest committed one is beyond the reach   *)
(* of such a challenge (_handleDoubleSpend's strict comparison).            *)
THEOREM OriginalSpared == Spec => []DoubleSpendSparesOriginal
<1>1. SpareInv /\ [Next]_vars => SpareInv'
  BY TypeStep, LogStep DEF AnyStep, SpareInv
<1>2. Init => SpareInv
  BY TypeInit DEF Init, LogInv, SpareInv
<1>3. ASSUME SpareInv PROVE DoubleSpendSparesOriginal
  <2> SUFFICES ASSUME NEW c \in challengeLog, c.reason = "DOUBLE_SPEND"
               PROVE  \E id \in BatchIds :
                        /\ c.leaf \in batches[id].merkleRoot
                        /\ ~\E d \in challengeLog :
                              d.id = id /\ d.leaf = c.leaf /\ d.reason = "DOUBLE_SPEND"
    BY DEF DoubleSpendSparesOriginal
  <2> DEFINE H == {id \in BatchIds : Committed(id) /\ c.leaf \in batches[id].merkleRoot}
             Times == {batches[id].commitTimestamp : id \in H}
  <2>1. Times # {}
    BY <1>3 DEF SpareInv, LogInv, EarlierHolder
  <2>2. Times \subseteq Nat
    BY <1>3 DEF SpareInv, TypeInv, TypeOK, RegistryTypeOK, Batch
  <2>3. PICK first \in Times : \A t \in Times : ~(t < first)
    <3> HIDE DEF Times
    <3>1. PICK m \in Times : \A t \in Times : ~(<<t, m>> \in OpToRel(<, Nat))
      BY <2>1, <2>2, NatLessThanWellFounded, WFMin, Zenon
    <3> QED BY <2>2, <3>1 DEF OpToRel
  <2>4. PICK id \in H : batches[id].commitTimestamp = first
    BY <2>3
  <2>5. ASSUME NEW d \in challengeLog, d.id = id, d.leaf = c.leaf,
               d.reason = "DOUBLE_SPEND"
        PROVE  FALSE
    <3>1. EarlierHolder(d)
      BY <1>3, <2>5 DEF SpareInv, LogInv
    <3>2. PICK other \in H : batches[other].commitTimestamp < first
      BY <2>4, <2>5, <3>1 DEF EarlierHolder
    <3> QED BY <2>3, <3>2
  <2> QED BY <2>4, <2>5
<1> QED BY <1>1, <1>2, <1>3, PTL DEF Spec
================================================================================
