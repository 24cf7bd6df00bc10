------------------------- MODULE BatchSettlementClient -------------------------
(****************************************************************************)
(* prsm/settlement/client.py with accumulator.py and state_store.py: a      *)
(* provider's node collects receipts, commits them in batches to the        *)
(* registry and follows each batch until it is finalized, over crashes,     *)
(* failing disk writes, lost RPC answers and re-delivered receipts.         *)
(*                                                                          *)
(* The client's asyncio.Lock makes every method atomic for the others, so   *)
(* only commit_ready_batches, which waits for the chain while it holds the  *)
(* lock, takes several steps; the chain, third parties and crashes come in  *)
(* between.  Its loop over the ready batches is one batch at a time here,   *)
(* and the count, time and value thresholds (any of which may fire on a     *)
(* non-empty batch) are a free choice.                                      *)
(*                                                                          *)
(* Data abstractions: a receipt stands for its local_escrow_id; a Merkle    *)
(* root is the sequence of receipts under it; a transaction is its place in *)
(* the order of broadcasts, and so is the batch id it mints.  The committed *)
(* id ledger is capped at 200_000 ids in the code, first in first out: the  *)
(* model covers runs whose receipts fit, where nothing is ever evicted.     *)
(****************************************************************************)
EXTENDS Naturals, Sequences, FiniteSets, Functions

CONSTANTS
    Receipts,          \* local_escrow_ids of the work this provider did
    Keys,              \* (requester, provider, group, slash rate)
    KeyOf,             \* receipt -> its accumulator key
    PersistOutcomes,   \* {TRUE}: every save succeeds; BOOLEAN: some fail
    MaxTx,             \* bound: commit transactions broadcast
    MaxCrashes,        \* bound: restarts of the node
    NoKey

ASSUME ClientAssumption ==
    /\ IsFiniteSet(Receipts)
    /\ KeyOf \in [Receipts -> Keys]
    /\ NoKey \notin Keys
    /\ PersistOutcomes \subseteq BOOLEAN
    /\ MaxTx \in Nat
    /\ MaxCrashes \in Nat

VARIABLES
    accumulator,         \* key -> receipts of its PendingBatch, in order
    committing,          \* write-ahead intents [key, root]
    pendingCommits,      \* quarantined transactions
    tracked,             \* batches committed on chain
    finalizedIds,
    committedEscrowIds,  \* the dedup ledger
    disk,                \* the state file: the six above, as last saved
    commit,              \* where commit_ready_batches is, [at, key, tx]
    txs,                 \* transactions broadcast so far, [key, root, status]
    chainFinalized,      \* batches finalized on chain
    crashes

memory == [accumulator |-> accumulator, committing |-> committing,
           pendingCommits |-> pendingCommits, tracked |-> tracked,
           finalizedIds |-> finalizedIds, committedEscrowIds |-> committedEscrowIds]
memoryVars == <<accumulator, committing, pendingCommits, tracked, finalizedIds,
                committedEscrowIds>>
chainVars == <<txs, chainFinalized>>
vars == <<memoryVars, disk, commit, chainVars, crashes>>

Roots == {s \in UNION {[1 .. n -> Receipts] : n \in 0 .. Cardinality(Receipts)} :
            IsInjective(s)}
TxIds == 1 .. MaxTx
Memory == [accumulator : [Keys -> Roots],
           committing : SUBSET [key : Keys, root : Roots],
           pendingCommits : SUBSET TxIds,
           tracked : SUBSET TxIds,
           finalizedIds : SUBSET TxIds,
           committedEscrowIds : SUBSET Receipts]
TxStatus == {"mempool", "landed", "reverted", "dropped"}

TypeOK ==
    /\ memory \in Memory
    /\ disk \in Memory
    /\ commit \in [at : {"idle", "send", "wait"}, key : Keys \cup {NoKey},
                   tx : TxIds \cup {0}]
    /\ txs \in Seq([key : Keys, root : Roots, status : TxStatus])
    /\ Len(txs) <= MaxTx
    /\ chainFinalized \subseteq TxIds
    /\ crashes \in 0 .. MaxCrashes

Idle == [at |-> "idle", key |-> NoKey, tx |-> 0]

Init ==
    /\ accumulator = [k \in Keys |-> <<>>]
    /\ committing = {}
    /\ pendingCommits = {}
    /\ tracked = {}
    /\ finalizedIds = {}
    /\ committedEscrowIds = {}
    /\ disk = memory
    /\ commit = Idle
    /\ txs = <<>>
    /\ chainFinalized = {}
    /\ crashes = 0

(* The lock is free. *)
Unlocked == commit.at = "idle"

Landed(t) == t \in DOMAIN txs /\ txs[t].status = "landed"

(* _persist replaces the state file atomically.  A failing save is raised,  *)
(* which ends the method: the memory keeps its change and the file is old.  *)
Persist(ok) == disk' = IF ok THEN memory' ELSE disk

--------------------------------------------------------------------------------
(* Defect: a re-delivered receipt is appended to its batch again. *)
AccumulateTwice(r, ok) ==
    LET k == KeyOf[r]
    IN  /\ Unlocked
        /\ r \notin committedEscrowIds
        /\ Len(accumulator[k]) <= Cardinality(Receipts)
        /\ accumulator' = [accumulator EXCEPT ![k] = Append(@, r)]
        /\ UNCHANGED <<committing, pendingCommits, tracked, finalizedIds,
                       committedEscrowIds, commit, chainVars, crashes>>
        /\ Persist(ok)

(* A new or re-delivered receipt.  One whose id is in the ledger is dropped *)
(* before anything changes; one already in its batch only costs a save.     *)
Accumulate(r, ok) ==
    LET k == KeyOf[r]
    IN  /\ Unlocked
        /\ r \notin committedEscrowIds
        /\ accumulator' = IF r \in Range(accumulator[k]) THEN accumulator
                          ELSE [accumulator EXCEPT ![k] = Append(@, r)]
        /\ UNCHANGED <<committing, pendingCommits, tracked, finalizedIds,
                       committedEscrowIds, commit, chainVars, crashes>>
        /\ Persist(ok)

(* Defect: the ledger is only written once the commit is confirmed. *)
ArmedIdsLate(k) == committedEscrowIds

(* _arm_committing_escrow_ids *)
ArmedIds(k) == committedEscrowIds \cup Range(accumulator[k])

Intent(k) == [key |-> k, root |-> accumulator[k]]

(* The intent and the ids are saved before the broadcast; if that fails,    *)
(* nothing is sent, and both stay behind in memory.                         *)
BeginCommit(k, ok) ==
    /\ Unlocked
    /\ accumulator[k] # <<>>
    /\ committing' = committing \cup {Intent(k)}
    /\ committedEscrowIds' = ArmedIds(k)
    /\ commit' = IF ok THEN [Idle EXCEPT !.at = "send", !.key = k] ELSE Idle
    /\ UNCHANGED <<accumulator, pendingCommits, tracked, finalizedIds, chainVars,
                   crashes>>
    /\ Persist(ok)

PopBatch(k) == accumulator' = [accumulator EXCEPT ![k] = <<>>]

Broadcast == Append(txs, [key |-> commit.key, root |-> accumulator[commit.key],
                          status |-> "mempool"])

(* send_raw_transaction returned a hash. *)
Send ==
    /\ commit.at = "send"
    /\ Len(txs) < MaxTx
    /\ txs' = Broadcast
    /\ commit' = [commit EXCEPT !.at = "wait", !.tx = Len(txs')]
    /\ UNCHANGED <<memoryVars, disk, chainFinalized, crashes>>

(* Defect: a failed broadcast is taken for a commit that never happened. *)
BroadcastFailedForgets(ok) ==
    /\ commit.at = "send"
    /\ \/ UNCHANGED txs
       \/ Len(txs) < MaxTx /\ txs' = Broadcast
    /\ PopBatch(commit.key)
    /\ committing' = committing \ {Intent(commit.key)}
    /\ commit' = Idle
    /\ UNCHANGED <<pendingCommits, tracked, finalizedIds, committedEscrowIds,
                   chainFinalized, crashes>>
    /\ Persist(ok)

(* send_raw_transaction raised, which does not say whether the node took    *)
(* the transaction: the intent stays and the receipts are quarantined.      *)
BroadcastFailed(ok) ==
    /\ commit.at = "send"
    /\ \/ UNCHANGED txs
       \/ Len(txs) < MaxTx /\ txs' = Broadcast
    /\ PopBatch(commit.key)
    /\ commit' = Idle
    /\ UNCHANGED <<committing, pendingCommits, tracked, finalizedIds,
                   committedEscrowIds, chainFinalized, crashes>>
    /\ Persist(ok)

(* No receipt in time, whatever became of the transaction. *)
ReceiptUnknown(ok) ==
    /\ commit.at = "wait"
    /\ committing' = committing \ {Intent(commit.key)}
    /\ PopBatch(commit.key)
    /\ pendingCommits' = pendingCommits \cup {commit.tx}
    /\ commit' = Idle
    /\ UNCHANGED <<tracked, finalizedIds, committedEscrowIds, chainVars, crashes>>
    /\ Persist(ok)

(* The transaction reverted, or an error came before the broadcast (no key, *)
(* a foreign provider_address, a failing build): the receipts stay and      *)
(* their ids leave the ledger.                                              *)
CommitReverted(ok) ==
    /\ \/ commit.at = "send"
       \/ commit.at = "wait" /\ txs[commit.tx].status = "reverted"
    /\ committing' = committing \ {Intent(commit.key)}
    /\ committedEscrowIds' = committedEscrowIds \ Range(accumulator[commit.key])
    /\ commit' = Idle
    /\ UNCHANGED <<accumulator, pendingCommits, tracked, finalizedIds, chainVars,
                   crashes>>
    /\ Persist(ok)

CommitConfirmed(ok) ==
    /\ commit.at = "wait"
    /\ Landed(commit.tx)
    /\ PopBatch(commit.key)
    /\ tracked' = tracked \cup {commit.tx}
    /\ committing' = committing \ {Intent(commit.key)}
    /\ committedEscrowIds' = ArmedIds(commit.key)
    /\ commit' = Idle
    /\ UNCHANGED <<pendingCommits, finalizedIds, chainVars, crashes>>
    /\ Persist(ok)

--------------------------------------------------------------------------------
(* The batches on chain under a root.  More than one is ambiguous, and the  *)
(* scan refuses to choose.                                                  *)
BatchesByRoot(root) == {t \in DOMAIN txs : Landed(t) /\ txs[t].root = root}

(* A landed intent is adopted, and whatever the accumulator now holds under *)
(* the intent's key is popped with it.                                      *)
RecoverCommittingIntent(intent, ok) ==
    /\ Unlocked
    /\ intent \in committing
    /\ Cardinality(BatchesByRoot(intent.root)) = 1
    /\ tracked' = tracked \cup BatchesByRoot(intent.root)
    /\ committing' = committing \ {intent}
    /\ PopBatch(intent.key)
    /\ UNCHANGED <<pendingCommits, finalizedIds, committedEscrowIds, commit,
                   chainVars, crashes>>
    /\ Persist(ok)

ReconcilePendingCommit(t, ok) ==
    /\ Unlocked
    /\ t \in pendingCommits
    /\ Landed(t)
    /\ tracked' = tracked \cup {t}
    /\ pendingCommits' = pendingCommits \ {t}
    /\ UNCHANGED <<accumulator, committing, finalizedIds, committedEscrowIds,
                   commit, chainVars, crashes>>
    /\ Persist(ok)

(* isFinalizable, then finalizeBatch: confirmed, or mined with the answer   *)
(* lost, which is logged and left to reconcile_finalized.  That the window  *)
(* has elapsed and the batch is unchallenged is a free choice here.         *)
FinalizeReadyBatch(t, ok) ==
    /\ Unlocked
    /\ t \in tracked \ finalizedIds
    /\ t \notin chainFinalized
    /\ chainFinalized' = chainFinalized \cup {t}
    /\ UNCHANGED <<accumulator, committing, pendingCommits, tracked,
                   committedEscrowIds, commit, txs, crashes>>
    /\ \/ finalizedIds' = finalizedIds \cup {t} /\ Persist(ok)
       \/ UNCHANGED <<finalizedIds, disk>>

(* Defect: looks again at what is finalized instead of at what is not. *)
ReconcileFinalizedAgain(t, ok) ==
    /\ Unlocked
    /\ t \in tracked \cap finalizedIds
    /\ t \in chainFinalized
    /\ finalizedIds' = finalizedIds \cup {t}
    /\ UNCHANGED <<accumulator, committing, pendingCommits, tracked,
                   committedEscrowIds, commit, chainVars, crashes>>
    /\ Persist(ok)

ReconcileFinalized(t, ok) ==
    /\ Unlocked
    /\ t \in tracked \ finalizedIds
    /\ t \in chainFinalized
    /\ finalizedIds' = finalizedIds \cup {t}
    /\ UNCHANGED <<accumulator, committing, pendingCommits, tracked,
                   committedEscrowIds, commit, chainVars, crashes>>
    /\ Persist(ok)

--------------------------------------------------------------------------------
(* _restore_pending: a batch under the key of a surviving intent is not     *)
(* restored, since the intent may have landed.                              *)
RestorePending(state) ==
    [k \in Keys |-> IF \E intent \in state.committing : intent.key = k
                    THEN <<>> ELSE state.accumulator[k]]

(* The node dies at any point and starts again from the state file. *)
Restart ==
    /\ crashes < MaxCrashes
    /\ crashes' = crashes + 1
    /\ accumulator' = RestorePending(disk)
    /\ committing' = disk.committing
    /\ pendingCommits' = disk.pendingCommits
    /\ tracked' = disk.tracked
    /\ finalizedIds' = disk.finalizedIds
    /\ committedEscrowIds' = disk.committedEscrowIds
    /\ commit' = Idle
    /\ UNCHANGED <<disk, chainVars>>

--------------------------------------------------------------------------------
(* A transaction leaves the mempool: mined, reverted or forgotten.  Each    *)
(* one that lands is a batch of its own: the registry has no content dedup. *)
Mine(t, status) ==
    /\ txs[t].status = "mempool"
    /\ txs' = [txs EXCEPT ![t].status = status]
    /\ UNCHANGED <<memoryVars, disk, commit, chainFinalized, crashes>>

(* finalizeBatch is open to everybody. *)
ThirdPartyFinalize(t) ==
    /\ Landed(t)
    /\ t \notin chainFinalized
    /\ chainFinalized' = chainFinalized \cup {t}
    /\ UNCHANGED <<memoryVars, disk, commit, txs, crashes>>

CommitStep ==
    \/ \E k \in Keys, ok \in PersistOutcomes : BeginCommit(k, ok)
    \/ Send
    \/ \E ok \in PersistOutcomes :
          \/ BroadcastFailed(ok)
          \/ ReceiptUnknown(ok)
          \/ CommitReverted(ok)
          \/ CommitConfirmed(ok)

Recover == \E intent \in committing, ok \in PersistOutcomes :
              RecoverCommittingIntent(intent, ok)
Reconcile == \E t \in pendingCommits, ok \in PersistOutcomes :
              ReconcilePendingCommit(t, ok)
Finalize == \E t \in tracked, ok \in PersistOutcomes :
              FinalizeReadyBatch(t, ok) \/ ReconcileFinalized(t, ok)

Next ==
    \/ \E r \in Receipts, ok \in PersistOutcomes : Accumulate(r, ok)
    \/ CommitStep
    \/ Recover
    \/ Reconcile
    \/ Finalize
    \/ Restart
    \/ \E t \in DOMAIN txs : \/ \E status \in TxStatus \ {"mempool"} : Mine(t, status)
                             \/ ThirdPartyFinalize(t)

Spec == Init /\ [][Next]_vars

(* The poll loop goes through every phase in each cycle and the lock is     *)
(* first come first served, so a phase that can do something time and again *)
(* does it (strong fairness: a commit in flight holds the lock meanwhile).  *)
(* A commit returns, because the wait for its receipt is bounded.           *)
FairSpec ==
    /\ Spec
    /\ SF_vars(Recover)
    /\ SF_vars(Reconcile)
    /\ SF_vars(Finalize)
    /\ WF_vars(commit.at # "idle" /\ CommitStep)

--------------------------------------------------------------------------------
(****************************************************************************)
(* Properties                                                               *)
(****************************************************************************)
LandedTxs == {t \in DOMAIN txs : Landed(t)}

(* In how many of the batches T a receipt is. *)
Copies(T) == [r \in Receipts |-> Cardinality({t \in T : r \in Range(txs[t].root)})]

Abstract == INSTANCE ReceiptSettlement
                WITH settled <- Copies(LandedTxs), paid <- Copies(chainFinalized)

(* The client settles every receipt at most once: its write-ahead intents,  *)
(* quarantine, dedup ledger and restart rule implement ReceiptSettlement    *)
(* over any crash, failed save, lost answer or re-delivery                  *)
(* (commit_ready_batches, accumulate and _restore_pending).                 *)
SettlesOnce == Abstract!Spec

(* A commit never lands behind the client's back: every batch on chain, and *)
(* every transaction that can still become one, is tracked, quarantined or  *)
(* covered by an intent, before and after any restart (the write-ahead log  *)
(* of commit_ready_batches).                                                *)
NothingStranded ==
    \A t \in DOMAIN txs : txs[t].status \in {"mempool", "landed"} =>
        \/ t \in tracked
        \/ t \in pendingCommits
        \/ [key |-> txs[t].key, root |-> txs[t].root] \in committing

(* Every batch that lands is in the end known to be finalized, also when    *)
(* the confirmation was lost, the node crashed, or somebody else finalized  *)
(* it (the poll cycle's recover, reconcile and finalize phases).            *)
LandedIsFinalized ==
    \A t \in TxIds : Landed(t) ~> t \in finalizedIds

(* A receipt the client holds is never dropped: it stays in the accumulator *)
(* or with an intent or a quarantined transaction until it is on chain      *)
(* (commit_ready_batches and _restore_pending claim it for those receipts). *)
Held(r) ==
    \/ r \in Range(accumulator[KeyOf[r]])
    \/ \E intent \in committing : r \in Range(intent.root)
    \/ \E t \in pendingCommits : r \in Range(txs[t].root)
    \/ \E t \in LandedTxs : r \in Range(txs[t].root)

NoReceiptDropped == [][\A r \in Receipts : Held(r) => Held(r)']_vars
================================================================================
