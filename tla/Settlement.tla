------------------------------ MODULE Settlement ------------------------------
(****************************************************************************)
(* The on-chain settlement core: BatchSettlementRegistry, StakeBond and     *)
(* EscrowPool deployed together, sharing block time, called by providers,   *)
(* requesters, challengers and the owner in any order.  A transaction is    *)
(* one step: it takes effect in all three contracts or reverts in all.      *)
(*                                                                          *)
(* Three observers have no counterpart in contract storage and guard        *)
(* nothing: openSeconds counts, block by block, the seconds each pending    *)
(* batch was exposed to challengers; paid is what each batch's Settled      *)
(* event moved; challengeLog is the ReceiptChallenged and SlashSwallowed    *)
(* events.                                                                  *)
(****************************************************************************)
EXTENDS StakeBond, EscrowPool, FiniteSets, FiniteSetsExt

ASSUME RequestersDeposit == Requesters \subseteq Depositors

(* There are finitely many addresses and receipts to add up over. *)
ASSUME FinitelyMany ==
    IsFiniteSet(Accounts) /\ IsFiniteSet(Depositors) /\ IsFiniteSet(ReceiptLeaves)

VARIABLES openSeconds, paid, challengeLog

observers == <<openSeconds, paid, challengeLog>>
vars == <<now, registryVars, stakeVars, poolVars, observers>>

TypeOK ==
    /\ RegistryTypeOK
    /\ StakeTypeOK
    /\ PoolTypeOK
    /\ openSeconds \in [BatchIds -> Nat]
    /\ paid \in [BatchIds -> Nat]
    /\ challengeLog \subseteq [id : BatchIds, leaf : ReceiptLeaves,
                               reason : Reasons, swallowed : BOOLEAN]

Init ==
    /\ RegistryInit
    /\ StakeInit
    /\ PoolInit
    /\ openSeconds = [id \in BatchIds |-> 0]
    /\ paid = [id \in BatchIds |-> 0]
    /\ challengeLog = {}

--------------------------------------------------------------------------------
Commit(p, r, root, total, group) ==
    /\ CommitBatch(p, r, root, total, group)
    /\ UNCHANGED <<stakeVars, poolVars, observers>>

(* finalizeBatch settles against the pool the batch was committed under; an *)
(* insufficient balance or a paused pool reverts the whole call.            *)
Finalize(id) ==
    LET value == FinalValue(batches[id])
    IN  /\ FinalizeBatch(id)
        /\ IF value > 0
           THEN SettleFromRequester(batches[id].requester, value)
           ELSE UNCHANGED poolVars
        /\ paid' = [paid EXCEPT ![id] = @ + value]
        /\ UNCHANGED <<stakeVars, openSeconds, challengeLog>>

(* challengeReceipt: the invalidation stands whether or not slash reverts. *)
Challenge(caller, id, leaf, reason) ==
    LET p == id[1]
        slashing == /\ reason \in SlashingReasons
                    /\ SlashedBond(id) # NoContract
    IN  /\ InvalidateReceipt(caller, id, leaf, reason)
        /\ IF slashing /\ Slashable(p) THEN Slash(p, caller)
                                       ELSE UNCHANGED stakeVars
        /\ challengeLog' = challengeLog \cup
              {[id |-> id, leaf |-> leaf, reason |-> reason,
                swallowed |-> slashing /\ ~Slashable(p)]}
        /\ UNCHANGED <<poolVars, openSeconds, paid>>

(* StorageSlashing, once wired, calls the same slash(). *)
StorageSlash(p, challenger) ==
    /\ storageSlasher # NoContract
    /\ Slash(p, challenger)
    /\ UNCHANGED <<now, registryVars, poolVars, observers>>

StakeStep ==
    /\ \/ \E p \in Providers :
            \/ \E amount \in BondAmounts, rate \in SlashRates : Bond(p, amount, rate)
            \/ RequestUnbond(p)
            \/ WithdrawStake(p)
       \/ \E a \in Accounts : ClaimBounty(a)
    /\ UNCHANGED <<now, registryVars, poolVars, observers>>

PoolStep ==
    /\ \E r \in Depositors, amount \in Amounts :
            Deposit(r, amount) \/ WithdrawEscrow(r, amount)
    /\ UNCHANGED <<now, registryVars, stakeVars, observers>>

RegistryStep ==
    \/ \E p \in Providers, r \in Requesters, root \in Roots, total \in Totals,
          group \in Groups : Commit(p, r, root, total, group)
    \/ \E id \in BatchIds : Finalize(id)
    \/ \E caller \in Accounts, id \in BatchIds, reason \in Reasons :
          \E leaf \in batches[id].merkleRoot : Challenge(caller, id, leaf, reason)

UserStep ==
    \/ RegistryStep
    \/ \E p \in Providers, challenger \in Credited : StorageSlash(p, challenger)
    \/ StakeStep
    \/ PoolStep

(* Owner calls whose order and timing no property depends on. *)
OwnerRegistryStep ==
    /\ \/ \E w \in Lookbacks : SetSettlementLookbackWindow(w)
       \/ \E a \in PoolWirings : SetEscrowPool(a)
       \/ \E a \in BondWirings : SetStakeBond(a)
       \/ \E a \in VerifierWirings : SetSignatureVerifier(a)
    /\ UNCHANGED <<stakeVars, poolVars, observers>>

OwnerStakeStep ==
    /\ \/ \E d \in UnbondDelays : SetUnbondDelay(d)
       \/ \E a \in StorageSlashers : SetStorageSlasherOnce(a)
       \/ \E a \in ReserveWallets : SetFoundationReserveWallet(a)
       \/ DrainFoundationReserve
    /\ UNCHANGED <<now, registryVars, poolVars, observers>>

OwnerPoolStep ==
    /\ \/ \E t \in Tokens : SetFtnsToken(t)
       \/ PausePool
       \/ UnpausePool
    /\ UNCHANGED <<now, registryVars, stakeVars, observers>>

OwnerStep == OwnerRegistryStep \/ OwnerStakeStep \/ OwnerPoolStep

SetWindow(w) ==
    /\ SetChallengeWindowSeconds(w)
    /\ UNCHANGED <<stakeVars, poolVars, observers>>

PauseRegistryAlone ==
    /\ PauseRegistry \/ UnpauseRegistry
    /\ UNCHANGED <<stakeVars, poolVars, observers>>

PauseBondAlone ==
    /\ PauseBond \/ UnpauseBond
    /\ UNCHANGED <<now, registryVars, poolVars, observers>>

(* The pause bundle of StakeBond's INFO-4 note: both contracts in one go. *)
PauseTogether ==
    /\ \/ PauseRegistry /\ PauseBond
       \/ UnpauseRegistry /\ UnpauseBond
    /\ UNCHANGED <<poolVars, observers>>

(* A second passes; it counts for a pending batch unless the registry is    *)
(* paused, when no challenge can be made.                                   *)
Block ==
    /\ Tick
    /\ openSeconds' = [id \in BatchIds |->
          IF batches[id].status = "PENDING" /\ ~registryPaused
          THEN openSeconds[id] + 1 ELSE openSeconds[id]]
    /\ UNCHANGED <<stakeVars, poolVars, paid, challengeLog>>

(* Nobody pauses: users, the owner's other calls and time. *)
NextUnpaused ==
    \/ UserStep
    \/ OwnerRegistryStep
    \/ OwnerStakeStep
    \/ \E w \in Windows : SetWindow(w)
    \/ Block

SpecUnpaused == Init /\ [][NextUnpaused]_vars

(* Every call that moves FTNS, with the bond and pool pauses around it. *)
NextMoney == UserStep \/ OwnerStakeStep \/ OwnerPoolStep \/ PauseBondAlone \/ Block

SpecMoney == Init /\ [][NextMoney]_vars

(* What the contracts allow: the owner pauses each contract on its own and  *)
(* moves the challenge window either way.                                   *)
Next ==
    \/ UserStep
    \/ OwnerStep
    \/ \E w \in Windows : SetWindow(w)
    \/ PauseRegistryAlone
    \/ PauseBondAlone
    \/ Block

Spec == Init /\ [][Next]_vars

(* The contracts under the owner's pause bundle: the window still moves     *)
(* either way, and everybody else calls what the contracts allow.           *)
NextBundled ==
    \/ UserStep
    \/ OwnerStep
    \/ \E w \in Windows : SetWindow(w)
    \/ PauseTogether
    \/ Block

SpecBundled == Init /\ [][NextBundled]_vars

--------------------------------------------------------------------------------
(****************************************************************************)
(* Properties                                                               *)
(****************************************************************************)
Pending(id) == batches[id].status = "PENDING"
WindowOf(id) == batches[id].challengeWindowSecondsAtCommit

LeafValue(l) == l.value
StakeAmount(p) == stakes[p].amount
Bounty(a) == slashedBountyPayable[a]
Balance(r) == balances[r]

(* Pausing never eats a challenge window: a batch turns FINALIZED only when *)
(* it has been open to challengers for the whole window pinned at its       *)
(* commit, however pauses and window changes interleave with it             *)
(* (finalizeBatch with _effectiveElapsed, _pause and _unpause).             *)
FinalizeOnlyAfterOpenWindow ==
    [][\A id \in BatchIds :
          Pending(id) /\ batches'[id].status = "FINALIZED"
             => openSeconds[id] >= WindowOf(id)]_vars

(* The pause ledger is exact: the contract's arithmetic on timestamps and   *)
(* completed pauses, with a running pause taken out too, agrees with the    *)
(* seconds counted block by block (_effectiveElapsed, _unpause).            *)
PauseLedgerExact ==
    \A id \in BatchIds : Pending(id) =>
        now - batches[id].commitTimestamp
          - (totalPausedSeconds - batches[id].totalPausedAtBatchOrigin)
          - (IF registryPaused THEN now - pauseStartedAt ELSE 0)
        = openSeconds[id]

(* A later batch of the same provider has a shorter window and was          *)
(* committed after a pause that id is owed: its wall-clock expiry may       *)
(* displace the tracked one, and the pause is then added to neither.        *)
Undercut(id) ==
    \E later \in BatchIds :
        /\ later[1] = id[1]
        /\ batches[later].status # "NONEXISTENT"
        /\ WindowOf(later) < WindowOf(id)
        /\ batches[later].totalPausedAtBatchOrigin > batches[id].totalPausedAtBatchOrigin

(* No stake leaves while its owner can still be challenged: when a provider *)
(* withdraws, each of its pending batches has used up its pinned window,    *)
(* also one committed before the owner shortened the window, unless a batch *)
(* with a shorter window followed a pause (StakeBond.withdraw with          *)
(* _pendingExpiryFloor).                                                    *)
WithdrawOnlyAfterExpiry ==
    [][\A id \in BatchIds :
          (/\ Pending(id)
           /\ ~Undercut(id)
           /\ stakes[id[1]].status = "UNBONDING"
           /\ stakes'[id[1]].status = "WITHDRAWN")
             => openSeconds[id] >= WindowOf(id)]_vars

(* The floor that StakeBond derives from the registry's tracker is at least *)
(* the pause-adjusted expiry of every pending batch of the provider, with   *)
(* the window shortened or extended between the commits, unless a batch     *)
(* with a shorter window followed a pause (_commitBatch's tracker pair,     *)
(* read by _pendingExpiryFloor).                                            *)
FloorCoversPending ==
    \A id \in BatchIds : Pending(id) /\ ~Undercut(id) =>
        batches[id].commitTimestamp + WindowOf(id)
          + (totalPausedSeconds - batches[id].totalPausedAtBatchOrigin)
        <= PendingExpiryFloor(id[1])

(* Each challenged receipt is subtracted exactly once, so a batch pays its  *)
(* declared total less the leaves that were invalidated, and only once      *)
(* (challengeReceipt's accumulator against finalizeBatch's payment).        *)
PaidNetOfChallenges ==
    \A id \in BatchIds :
        LET netted == batches[id].totalValueFTNS
                        - MapThenSumSet(LeafValue, invalidatedReceipts[id])
        IN  paid[id] = IF batches[id].status = "FINALIZED" THEN netted ELSE 0

(* Double-spend challenges never wipe out a receipt: of the batches holding *)
(* a leaf, one at least was not challenged for it (first committer wins).   *)
DoubleSpendSparesOriginal ==
    \A c \in challengeLog : c.reason = "DOUBLE_SPEND" =>
        \E id \in BatchIds :
            /\ c.leaf \in batches[id].merkleRoot
            /\ ~\E d \in challengeLog :
                  d.id = id /\ d.leaf = c.leaf /\ d.reason = "DOUBLE_SPEND"

(* The bond contract can always pay out everything it owes at once: stakes, *)
(* unclaimed bounties and the foundation's reserve add up to what it holds  *)
(* (bond, slash's 70/30 split, withdraw, claimBounty, drain).               *)
BondSolvent ==
    bondHoldings = MapThenSumSet(StakeAmount, Providers)
                     + MapThenSumSet(Bounty, Accounts)
                     + foundationReserveBalance

(* Every escrow balance is backed by the token the pool now pays in, across *)
(* settlements and token rotations (totalEscrowedBalance and setFtnsToken). *)
EscrowBacked ==
    /\ poolHoldings[ftns] = MapThenSumSet(Balance, Depositors)
    /\ totalEscrowedBalance = poolHoldings[ftns]

(* Who holds a tier can lose it: an active stake of tier size carries the   *)
(* tier's slash rate through slashes and re-bonds, so a proven fault always *)
(* takes at least half of it (bond's floor with slash).                     *)
TierIsExposed ==
    \A p \in Providers :
        (/\ stakes[p].status \in {"BONDED", "UNBONDING"}
         /\ stakes[p].amount >= StandardStake)
            => 2 * SlashAmount(p) >= stakes[p].amount - 1

(* The owner rejudges nothing: a transaction that changes a window or one   *)
(* of the wired contracts leaves every challenge of a committed batch as    *)
(* provable as it was, the batch as finalizable, the pool it is paid from   *)
(* and the bond it is slashed in the same, also when it is ordered just     *)
(* before the challenge or the finalization (the AtCommit snapshots of      *)
(* _commitBatch, read by challengeReceipt and finalizeBatch).               *)
OwnerRejudgesNothing ==
    [][configVars' # configVars =>
          \A id \in BatchIds : batches[id].status # "NONEXISTENT" =>
             /\ IsFinalizable(id)' = IsFinalizable(id)
             /\ FinalValue(batches'[id]) = FinalValue(batches[id])
             /\ PayingPool(id)' = PayingPool(id)
             /\ SlashedBond(id)' = SlashedBond(id)
             /\ Slashable(id[1])' = Slashable(id[1])
             /\ \A caller \in Accounts, reason \in Reasons :
                   \A leaf \in batches[id].merkleRoot :
                      Proven(id, leaf, reason, caller)'
                         = Proven(id, leaf, reason, caller)]_vars
================================================================================
