------------------------ MODULE BatchSettlementRegistry ------------------------
(****************************************************************************)
(* contracts/contracts/BatchSettlementRegistry.sol: providers commit        *)
(* batches of receipts, anybody may challenge a receipt while the batch's   *)
(* challenge window is open, and anybody may finalize the batch once the    *)
(* window has elapsed.  The two calls that leave the contract,              *)
(* StakeBond.slash and EscrowPool.settleFromRequester, are conjoined with   *)
(* the actions of this module in module Settlement.                         *)
(*                                                                          *)
(* Data abstractions: a Merkle root is the set of leaves under it and a     *)
(* proof verifies exactly for the members of that set; a batch id (keccak   *)
(* of provider, requester, root, count, block and sequence) is the pair     *)
(* <<provider, sequence>>.  receiptCount, tier_slash_rate_bps, metadataURI  *)
(* and attestationCommitment are stored but decide nothing, and are left    *)
(* out; so commitBatch and commitBatchWithAttestation are one action.       *)
(****************************************************************************)
EXTENDS Integers

CONSTANTS
    Providers,        \* addresses that commit batches
    Requesters,       \* addresses that owe payment
    Challengers,      \* further addresses that may challenge
    ReceiptLeaves,    \* records [jobShard, output, executedAt, value, sigValid]
    Roots,            \* the Merkle roots a provider may commit (sets of leaves)
    Totals,           \* totalValueFTNS a provider may declare for a root
    Groups,           \* values of consensus_group_id, NoGroup among them
    Windows,          \* MIN_CHALLENGE_WINDOW_SECONDS..MAX_CHALLENGE_WINDOW_SECONDS
    Lookbacks,        \* MIN_LOOKBACK_SECONDS..MAX_LOOKBACK_SECONDS
    PoolWirings, BondWirings, VerifierWirings,  \* what the three pointers may hold
    MaxBatches,       \* bound: batches one provider commits
    MaxTime           \* bound: last block.timestamp

NoContract == "0x0"
EscrowPoolAddr == "EscrowPool"
StakeBondAddr == "StakeBond"
VerifierAddr == "Ed25519Verifier"
NoGroup == "0"

(* Leaf and window arithmetic needs numbers; the owner's setters reject a   *)
(* zero window (MIN_CHALLENGE_WINDOW_SECONDS is one hour).                  *)
ASSUME RegistryAssumption ==
    /\ MaxBatches \in Nat
    /\ MaxTime \in Nat
    /\ Windows \subseteq Nat \ {0}
    /\ Windows # {}
    /\ Lookbacks \subseteq Nat
    /\ Lookbacks # {}
    /\ PoolWirings \subseteq {NoContract, EscrowPoolAddr}
    /\ BondWirings \subseteq {NoContract, StakeBondAddr}
    /\ VerifierWirings \subseteq {NoContract, VerifierAddr}
    /\ Totals \subseteq Nat
    /\ Roots \subseteq SUBSET ReceiptLeaves
    /\ \A l \in ReceiptLeaves : l.value \in Nat /\ l.executedAt \in Nat
    /\ NoGroup \in Groups

Accounts == Providers \cup Requesters \cup Challengers
BatchIds == Providers \X (0 .. MaxBatches - 1)
BatchStatus == {"NONEXISTENT", "PENDING", "FINALIZED"}

Batch == [requester : Requesters \cup {NoContract},
          merkleRoot : SUBSET ReceiptLeaves,
          totalValueFTNS : Nat,
          invalidatedValueFTNS : Nat,
          commitTimestamp : Nat,
          status : BatchStatus,
          consensus_group_id : Groups,
          lookbackWindowSecondsAtCommit : Nat,
          totalPausedAtBatchOrigin : Nat,
          challengeWindowSecondsAtCommit : Nat,
          escrowPoolAtCommit : {NoContract, EscrowPoolAddr},
          stakeBondAtCommit : {NoContract, StakeBondAddr},
          signatureVerifierAtCommit : {NoContract, VerifierAddr}]

(* The all-zero storage slot of a batch id that was never committed. *)
EmptyBatch == [requester |-> NoContract,
               merkleRoot |-> {},
               totalValueFTNS |-> 0,
               invalidatedValueFTNS |-> 0,
               commitTimestamp |-> 0,
               status |-> "NONEXISTENT",
               consensus_group_id |-> NoGroup,
               lookbackWindowSecondsAtCommit |-> 0,
               totalPausedAtBatchOrigin |-> 0,
               challengeWindowSecondsAtCommit |-> 0,
               escrowPoolAtCommit |-> NoContract,
               stakeBondAtCommit |-> NoContract,
               signatureVerifierAtCommit |-> NoContract]

VARIABLES
    now,                              \* block.timestamp
    batches,                          \* batchId -> Batch
    providerBatchSequence,            \* provider -> next sequence
    invalidatedReceipts,              \* batchId -> successfully challenged leaves
    lastPendingBatchExpiry,           \* provider -> wall-clock expiry tracker
    lastPendingBatchPausedAtAccrual,  \* provider -> totalPausedSeconds at tracker write
    challengeWindowSeconds,
    settlementLookbackWindowSeconds,
    escrowPool, stakeBond, signatureVerifier,   \* wired contracts, or NoContract
    registryPaused, pauseStartedAt, totalPausedSeconds

batchVars == <<batches, providerBatchSequence, invalidatedReceipts,
               lastPendingBatchExpiry, lastPendingBatchPausedAtAccrual>>
configVars == <<challengeWindowSeconds, settlementLookbackWindowSeconds,
                escrowPool, stakeBond, signatureVerifier>>
registryPauseVars == <<registryPaused, pauseStartedAt, totalPausedSeconds>>
registryVars == <<batchVars, configVars, registryPauseVars>>

RegistryTypeOK ==
    /\ now \in Nat
    /\ batches \in [BatchIds -> Batch]
    /\ providerBatchSequence \in [Providers -> Nat]
    /\ invalidatedReceipts \in [BatchIds -> SUBSET ReceiptLeaves]
    /\ lastPendingBatchExpiry \in [Providers -> Nat]
    /\ lastPendingBatchPausedAtAccrual \in [Providers -> Nat]
    /\ challengeWindowSeconds \in Windows
    /\ settlementLookbackWindowSeconds \in Lookbacks
    /\ escrowPool \in PoolWirings
    /\ stakeBond \in BondWirings
    /\ signatureVerifier \in VerifierWirings
    /\ registryPaused \in BOOLEAN
    /\ pauseStartedAt \in Nat
    /\ totalPausedSeconds \in Nat

(* The constructor leaves the three pointers unset and the deployment       *)
(* scripts wire them through the setters: Init is any such configuration.   *)
RegistryInit ==
    /\ now = 0
    /\ batches = [id \in BatchIds |-> EmptyBatch]
    /\ providerBatchSequence = [p \in Providers |-> 0]
    /\ invalidatedReceipts = [id \in BatchIds |-> {}]
    /\ lastPendingBatchExpiry = [p \in Providers |-> 0]
    /\ lastPendingBatchPausedAtAccrual = [p \in Providers |-> 0]
    /\ challengeWindowSeconds \in Windows
    /\ settlementLookbackWindowSeconds \in Lookbacks
    /\ escrowPool \in PoolWirings
    /\ stakeBond \in BondWirings
    /\ signatureVerifier \in VerifierWirings
    /\ registryPaused = FALSE
    /\ pauseStartedAt = 0
    /\ totalPausedSeconds = 0

--------------------------------------------------------------------------------
(* A defect that would be easy to write: pauses count as elapsed time. *)
EffectiveElapsedWallClock(b) == now - b.commitTimestamp

(* Wall-clock time since the commit less the completed pauses since then.   *)
EffectiveElapsed(b) ==
    LET wall == now - b.commitTimestamp
        pausedSinceCommit == totalPausedSeconds - b.totalPausedAtBatchOrigin
    IN  IF wall > pausedSinceCommit THEN wall - pausedSinceCommit ELSE 0

IsFinalizable(id) ==
    /\ batches[id].status = "PENDING"
    /\ EffectiveElapsed(batches[id]) >= batches[id].challengeWindowSecondsAtCommit

(* Defect: the last commit's expiry, whether or not it is the largest.      *)
TrackPendingExpiryLatest(p) ==
    /\ lastPendingBatchExpiry' =
           [lastPendingBatchExpiry EXCEPT ![p] = now + challengeWindowSeconds]
    /\ lastPendingBatchPausedAtAccrual' =
           [lastPendingBatchPausedAtAccrual EXCEPT ![p] = totalPausedSeconds]

(* Written only when the new wall-clock expiry is strictly the largest: the *)
(* expiry and the pause total it was recorded under move together.          *)
TrackPendingExpiry(p) ==
    LET newExpiry == now + challengeWindowSeconds
    IN  IF newExpiry > lastPendingBatchExpiry[p]
        THEN /\ lastPendingBatchExpiry' = [lastPendingBatchExpiry EXCEPT ![p] = newExpiry]
             /\ lastPendingBatchPausedAtAccrual' =
                    [lastPendingBatchPausedAtAccrual EXCEPT ![p] = totalPausedSeconds]
        ELSE UNCHANGED <<lastPendingBatchExpiry, lastPendingBatchPausedAtAccrual>>

(* p commits a batch against requester r.  The declared total is the        *)
(* provider's: the contract never sees the leaves, so it cannot check it.   *)
CommitBatch(p, r, root, total, group) ==
    LET id == <<p, providerBatchSequence[p]>>
    IN  /\ ~registryPaused
        /\ providerBatchSequence[p] < MaxBatches
        /\ root # {}
        /\ batches[id].status = "NONEXISTENT"
        /\ providerBatchSequence' = [providerBatchSequence EXCEPT ![p] = @ + 1]
        /\ batches' = [batches EXCEPT ![id] =
             [requester |-> r,
              merkleRoot |-> root,
              totalValueFTNS |-> total,
              invalidatedValueFTNS |-> 0,
              commitTimestamp |-> now,
              status |-> "PENDING",
              consensus_group_id |-> group,
              lookbackWindowSecondsAtCommit |-> settlementLookbackWindowSeconds,
              totalPausedAtBatchOrigin |-> totalPausedSeconds,
              challengeWindowSecondsAtCommit |-> challengeWindowSeconds,
              escrowPoolAtCommit |-> escrowPool,
              stakeBondAtCommit |-> stakeBond,
              signatureVerifierAtCommit |-> signatureVerifier]]
        /\ TrackPendingExpiry(p)
        /\ UNCHANGED <<now, invalidatedReceipts, configVars, registryPauseVars>>

(* What finalizeBatch pays.  Solidity's checked subtraction reverts when    *)
(* more value was invalidated than the provider declared.                   *)
FinalValue(b) == b.totalValueFTNS - b.invalidatedValueFTNS

(* Defect: the pool that is wired now. *)
PayingPoolLive(id) == escrowPool

(* The pool a batch is settled from. *)
PayingPool(id) == batches[id].escrowPoolAtCommit

(* The bond contract a fault in the batch is slashed in. *)
SlashedBond(id) == batches[id].stakeBondAtCommit

FinalizeBatch(id) ==
    /\ ~registryPaused
    /\ IsFinalizable(id)
    /\ FinalValue(batches[id]) >= 0
    /\ FinalValue(batches[id]) > 0 => PayingPool(id) # NoContract
    /\ batches' = [batches EXCEPT ![id].status = "FINALIZED"]
    /\ UNCHANGED <<now, providerBatchSequence, invalidatedReceipts,
                   lastPendingBatchExpiry, lastPendingBatchPausedAtAccrual,
                   configVars, registryPauseVars>>

--------------------------------------------------------------------------------
(* The reason-code handlers: when is the challenge of a leaf proven?        *)

(* Defect: a conflict of the same block counts. *)
HandleDoubleSpendSameBlock(id, leaf) ==
    \E other \in BatchIds \ {id} :
        /\ batches[other].status # "NONEXISTENT"
        /\ batches[other].commitTimestamp <= batches[id].commitTimestamp
        /\ leaf \in batches[other].merkleRoot

(* Some other batch, committed strictly earlier, contains the same leaf. *)
HandleDoubleSpend(id, leaf) ==
    \E other \in BatchIds \ {id} :
        /\ batches[other].status # "NONEXISTENT"
        /\ batches[other].commitTimestamp < batches[id].commitTimestamp
        /\ leaf \in batches[other].merkleRoot

(* sigValid abstracts ISignatureVerifier.verify on the committed message. *)
HandleInvalidSignature(id, leaf) ==
    /\ batches[id].signatureVerifierAtCommit # NoContract
    /\ ~leaf.sigValid

HandleNoEscrow(id, caller) == caller = batches[id].requester

(* A leaf dated after the block makes the checked subtraction revert. *)
HandleExpired(id, leaf) ==
    now - leaf.executedAt > batches[id].lookbackWindowSecondsAtCommit

(* Another provider's batch of the same consensus group holds a leaf for    *)
(* the same job and shard with a different output.                          *)
HandleConsensusMismatch(id, leaf) ==
    \E other \in BatchIds \ {id} :
        /\ batches[id].consensus_group_id # NoGroup
        /\ batches[other].status # "NONEXISTENT"
        /\ batches[other].consensus_group_id = batches[id].consensus_group_id
        /\ other[1] # id[1]
        /\ \E conflicting \in batches[other].merkleRoot :
              /\ conflicting.jobShard = leaf.jobShard
              /\ conflicting.output # leaf.output

Reasons == {"DOUBLE_SPEND", "INVALID_SIGNATURE", "NO_ESCROW", "EXPIRED",
            "CONSENSUS_MISMATCH"}
SlashingReasons == {"DOUBLE_SPEND", "INVALID_SIGNATURE", "CONSENSUS_MISMATCH"}

(* MALFORMED always reverts, so it is not among the reasons. *)
Proven(id, leaf, reason, caller) ==
    \/ reason = "DOUBLE_SPEND" /\ HandleDoubleSpend(id, leaf)
    \/ reason = "INVALID_SIGNATURE" /\ HandleInvalidSignature(id, leaf)
    \/ reason = "NO_ESCROW" /\ HandleNoEscrow(id, caller)
    \/ reason = "EXPIRED" /\ HandleExpired(id, leaf)
    \/ reason = "CONSENSUS_MISMATCH" /\ HandleConsensusMismatch(id, leaf)

(* Defect: a leaf may be invalidated twice. *)
InvalidateReceiptAgain(caller, id, leaf, reason) ==
    /\ ~registryPaused
    /\ batches[id].status = "PENDING"
    /\ EffectiveElapsed(batches[id]) < batches[id].challengeWindowSecondsAtCommit
    /\ leaf \in batches[id].merkleRoot
    /\ Proven(id, leaf, reason, caller)
    /\ invalidatedReceipts' = [invalidatedReceipts EXCEPT ![id] = @ \cup {leaf}]
    /\ batches' = [batches EXCEPT ![id].invalidatedValueFTNS = @ + leaf.value]
    /\ UNCHANGED <<now, providerBatchSequence, lastPendingBatchExpiry,
                   lastPendingBatchPausedAtAccrual, configVars, registryPauseVars>>

(* The registry's part of challengeReceipt, up to the slash. *)
InvalidateReceipt(caller, id, leaf, reason) ==
    /\ ~registryPaused
    /\ batches[id].status = "PENDING"
    /\ EffectiveElapsed(batches[id]) < batches[id].challengeWindowSecondsAtCommit
    /\ leaf \notin invalidatedReceipts[id]
    /\ leaf \in batches[id].merkleRoot
    /\ Proven(id, leaf, reason, caller)
    /\ invalidatedReceipts' = [invalidatedReceipts EXCEPT ![id] = @ \cup {leaf}]
    /\ batches' = [batches EXCEPT ![id].invalidatedValueFTNS = @ + leaf.value]
    /\ UNCHANGED <<now, providerBatchSequence, lastPendingBatchExpiry,
                   lastPendingBatchPausedAtAccrual, configVars, registryPauseVars>>

--------------------------------------------------------------------------------
(* Governance.  The setters stay open while the contract is paused. *)

SetChallengeWindowSeconds(w) ==
    /\ w # challengeWindowSeconds
    /\ challengeWindowSeconds' = w
    /\ UNCHANGED <<now, batchVars, settlementLookbackWindowSeconds, escrowPool,
                   stakeBond, signatureVerifier, registryPauseVars>>

SetSettlementLookbackWindow(w) ==
    /\ w # settlementLookbackWindowSeconds
    /\ settlementLookbackWindowSeconds' = w
    /\ UNCHANGED <<now, batchVars, challengeWindowSeconds, escrowPool, stakeBond,
                   signatureVerifier, registryPauseVars>>

SetEscrowPool(newPool) ==
    /\ newPool # escrowPool
    /\ escrowPool' = newPool
    /\ UNCHANGED <<now, batchVars, challengeWindowSeconds,
                   settlementLookbackWindowSeconds, stakeBond, signatureVerifier,
                   registryPauseVars>>

SetStakeBond(newBond) ==
    /\ newBond # stakeBond
    /\ stakeBond' = newBond
    /\ UNCHANGED <<now, batchVars, challengeWindowSeconds,
                   settlementLookbackWindowSeconds, escrowPool, signatureVerifier,
                   registryPauseVars>>

SetSignatureVerifier(newVerifier) ==
    /\ newVerifier # signatureVerifier
    /\ signatureVerifier' = newVerifier
    /\ UNCHANGED <<now, batchVars, challengeWindowSeconds,
                   settlementLookbackWindowSeconds, escrowPool, stakeBond,
                   registryPauseVars>>

PauseRegistry ==
    /\ ~registryPaused
    /\ registryPaused' = TRUE
    /\ pauseStartedAt' = now
    /\ UNCHANGED <<now, totalPausedSeconds, batchVars, configVars>>

(* Defect: the operands of the duration are swapped. *)
UnpauseRegistrySwapped ==
    /\ registryPaused
    /\ registryPaused' = FALSE
    /\ totalPausedSeconds' = totalPausedSeconds + (pauseStartedAt - now)
    /\ pauseStartedAt' = 0
    /\ UNCHANGED <<now, batchVars, configVars>>

(* Defect: the finished pause is forgotten. *)
UnpauseRegistryForgets ==
    /\ registryPaused
    /\ registryPaused' = FALSE
    /\ pauseStartedAt' = 0
    /\ UNCHANGED <<now, totalPausedSeconds, batchVars, configVars>>

UnpauseRegistry ==
    /\ registryPaused
    /\ registryPaused' = FALSE
    /\ totalPausedSeconds' = totalPausedSeconds + (now - pauseStartedAt)
    /\ pauseStartedAt' = 0
    /\ UNCHANGED <<now, batchVars, configVars>>

(* The next block carries a later timestamp. *)
Tick ==
    /\ now < MaxTime
    /\ now' = now + 1
    /\ UNCHANGED registryVars
================================================================================
