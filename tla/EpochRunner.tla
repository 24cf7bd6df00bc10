------------------------------ MODULE EpochRunner ------------------------------
(****************************************************************************)
(* prsm/settlement/epoch_runner.py with epoch_watermark.py and              *)
(* emission_epoch.py: the job that pays finalized batches from the reward   *)
(* pool, one epoch at a time, composed with OperatorRewardPool.             *)
(*                                                                          *)
(* A run is one process: it loads the watermark file, looks at the chain,   *)
(* plans, writes the manifest, broadcasts publishEpoch and saves the        *)
(* watermark.  publish_epoch returns the hash as soon as the transaction is *)
(* sent: whether it is mined, reverts or is forgotten is the chain's step.  *)
(* Transactions of the one publishing key are mined in nonce order.         *)
(*                                                                          *)
(* The split of the pot (allocate_pro_rata) is any division of it among the *)
(* batches' providers; ProRataAllocation looks at the division itself.      *)
(****************************************************************************)
EXTENDS OperatorRewardPool, Sequences

CONSTANTS
    Batches,       \* finalized settlement batches with a positive value
    ProviderOf,    \* batch -> the account that earned it
    Job,           \* the job's publishing key
    MaxSent        \* bound: publishEpoch transactions broadcast

ASSUME RunnerAssumption ==
    /\ ProviderOf \in [Batches -> Accounts]
    /\ Job \in Publishers
    /\ MaxSent \in Nat
    /\ 1 \in EpochIds

VARIABLES
    watermark,     \* the file: [last |-> 0 or epoch id, consumed |-> batches]
    manifests,     \* epoch id -> batches of its manifest file, {} if none
    finalized,     \* batches finalized on chain
    run,           \* the running job: [at, plan]
    mempool,       \* transactions of the job's key, in nonce order
    paid,          \* history: epoch id -> batches paid by the published root
    narrowed,      \* history: epochs planned again without some batch of the
                   \* plan before, because the run scanned another window
    sent

jobVars == <<watermark, manifests, finalized, run, mempool, paid, narrowed, sent>>
vars == <<poolVars, jobVars>>

Plan == [id : Nat, batches : SUBSET Batches, pot : Amounts,
         leaves : [Accounts -> Amounts]]
NoPlan == [id |-> 0, batches |-> {}, pot |-> 0, leaves |-> [a \in Accounts |-> 0]]
Idle == [at |-> "idle", plan |-> NoPlan]

WatermarkFile == [last : Nat, consumed : SUBSET Batches]

TypeOK ==
    /\ PoolTypeOK
    /\ watermark \in WatermarkFile
    /\ manifests \in [EpochIds -> SUBSET Batches]
    /\ finalized \subseteq Batches
    /\ run \in [at : {"idle", "publish", "persist"}, plan : Plan]
    /\ mempool \in Seq(Plan)
    /\ paid \in [EpochIds -> SUBSET Batches]
    /\ narrowed \subseteq EpochIds
    /\ sent \in 0 .. MaxSent

Init ==
    /\ PoolInit
    /\ watermark = [last |-> 0, consumed |-> {}]
    /\ manifests = [id \in EpochIds |-> {}]
    /\ finalized = {}
    /\ run = Idle
    /\ mempool = <<>>
    /\ paid = [id \in EpochIds |-> {}]
    /\ narrowed = {}
    /\ sent = 0

FinalizeBatch(b) ==
    /\ b \notin finalized
    /\ finalized' = finalized \cup {b}
    /\ UNCHANGED <<poolVars, watermark, manifests, run, mempool, paid, narrowed,
                   sent>>

--------------------------------------------------------------------------------
(* Defect: the id moves on and the batches are not remembered. *)
CommitIdOnly(wm, id, batches) == [wm EXCEPT !.last = IF id > @ THEN id ELSE @]

(* commit_epoch never rewinds the id, and absorbs batches of an old one. *)
CommitEpoch(wm, id, batches) ==
    [last |-> IF id > wm.last THEN id ELSE wm.last,
     consumed |-> wm.consumed \cup batches]

Exists(id) == id \in EpochIds /\ Published(id)

(* Defect: a published id is skipped and not adopted. *)
NextFreeId(wm) == IF Exists(wm.last + 1) THEN wm.last + 2 ELSE wm.last + 1

NextId(wm) == wm.last + 1

(* Defect: a watermark that is behind the chain is taken as it is. *)
NotAdopted == watermark

(* Steps 1 to 3: a cold watermark that the chain contradicts is lost and    *)
(* the run refuses; a warm one that is an epoch behind adopts the manifest. *)
Adopted ==
    IF Exists(NextId(watermark))
    THEN CommitEpoch(watermark, NextId(watermark), manifests[NextId(watermark)])
    ELSE watermark

LostWatermark == watermark.last = 0 /\ Exists(1)
ManifestMissing == Exists(NextId(watermark)) /\ manifests[NextId(watermark)] = {}

Shares(batches, pot) ==
    {leaves \in [Accounts -> 0 .. pot] :
        /\ MapThenSumSet(LAMBDA a : leaves[a], Accounts) = pot
        /\ \A a \in Accounts : leaves[a] > 0 => \E b \in batches : ProviderOf[b] = a}

(* _write_manifest replaces the file, whatever run wrote it before. *)
WriteManifest(id, batches) ==
    /\ manifests' = [manifests EXCEPT ![id] = batches]
    /\ narrowed' = IF manifests[id] \subseteq batches THEN narrowed
                   ELSE narrowed \cup {id}

(* The batches the caller scanned (its first block, its confirmations and   *)
(* its time bounds leave out what they like), without the consumed ones.    *)
Fresh(wm) == {scanned \ wm.consumed : scanned \in SUBSET finalized} \ {{}}

(* The run's plan, for a pot the operator names within the surplus. *)
Planned(id, batches) ==
    \E pot \in 1 .. balance - totalReserved :
        \E leaves \in Shares(batches, pot) :
            run' = [at |-> "publish", plan |-> [id |-> id, batches |-> batches,
                                                pot |-> pot, leaves |-> leaves]]

(* Defect: the manifest is not written before the publication. *)
PlanWithoutManifest(wm) ==
    /\ NextId(wm) \in EpochIds
    /\ ~Published(NextId(wm))
    /\ \E batches \in Fresh(wm) : Planned(NextId(wm), batches)
    /\ UNCHANGED <<manifests, narrowed>>

(* build_emission_epoch over the scanned batches that are not consumed yet. *)
(* The manifest is on disk before anything is sent.                         *)
PlanEpoch(wm) ==
    /\ NextId(wm) \in EpochIds
    /\ ~Published(NextId(wm))
    /\ \E batches \in Fresh(wm) :
          /\ Planned(NextId(wm), batches)
          /\ WriteManifest(NextId(wm), batches)

(* The recovery is saved whether or not the run goes on to publish: it may  *)
(* be a dry run, find nothing to pay or no pot, or a second unknown epoch.  *)
BeginRun ==
    /\ run = Idle
    /\ ~LostWatermark
    /\ ~ManifestMissing
    /\ watermark' = Adopted
    /\ \/ PlanEpoch(watermark')
       \/ UNCHANGED <<run, manifests, narrowed>>
    /\ UNCHANGED <<poolVars, finalized, mempool, paid, sent>>

(* Gas estimation runs the call first, so one that would revert now is not  *)
(* sent.  The answer to a transaction that was sent may be lost.            *)
Broadcast ==
    /\ run.at = "publish"
    /\ sent < MaxSent
    /\ Publishable(Job, run.plan.id, run.plan.pot)
    /\ mempool' = Append(mempool, run.plan)
    /\ sent' = sent + 1
    /\ run' \in {[run EXCEPT !.at = "persist"], Idle}
    /\ UNCHANGED <<poolVars, watermark, manifests, finalized, paid, narrowed>>

PersistWatermark ==
    /\ run.at = "persist"
    /\ watermark' = CommitEpoch(watermark, run.plan.id, run.plan.batches)
    /\ run' = Idle
    /\ UNCHANGED <<poolVars, manifests, finalized, mempool, paid, narrowed,
                   sent>>

(* The process is killed, or a call or a save raises. *)
Stop ==
    /\ run # Idle
    /\ run' = Idle
    /\ UNCHANGED <<poolVars, watermark, manifests, finalized, mempool, paid, narrowed,
                   sent>>

--------------------------------------------------------------------------------
Mined == Head(mempool)

MinePublish ==
    /\ mempool # <<>>
    /\ PublishEpoch(Job, Mined.id, Mined.leaves, Mined.pot)
    /\ paid' = [paid EXCEPT ![Mined.id] = Mined.batches]
    /\ mempool' = Tail(mempool)
    /\ UNCHANGED <<watermark, manifests, finalized, run, narrowed, sent>>

MineRevert ==
    /\ mempool # <<>>
    /\ ~Publishable(Job, Mined.id, Mined.pot)
    /\ mempool' = Tail(mempool)
    /\ UNCHANGED <<poolVars, watermark, manifests, finalized, run, paid, narrowed,
                   sent>>

(* A transaction is evicted, and the later nonces with it. *)
Evict(i) ==
    /\ mempool' = SubSeq(mempool, 1, i - 1)
    /\ UNCHANGED <<poolVars, watermark, manifests, finalized, run, paid, narrowed,
                   sent>>

RunStep == BeginRun \/ Broadcast \/ PersistWatermark \/ Stop

Next ==
    \/ \E b \in Batches : FinalizeBatch(b)
    \/ RunStep
    \/ MinePublish
    \/ MineRevert
    \/ \E i \in DOMAIN mempool : Evict(i)
    \/ PoolStep /\ UNCHANGED jobVars

Spec == Init /\ [][Next]_vars

(* The operator keeps running the job, and a run ends. *)
FairSpec ==
    /\ Spec
    /\ WF_vars(BeginRun)
    /\ WF_vars(run # Idle /\ RunStep)

--------------------------------------------------------------------------------
(****************************************************************************)
(* Properties                                                               *)
(****************************************************************************)

(* A batch is paid by two epochs only if the first was planned again over   *)
(* another window, whose manifest no longer names it: over any crash, lost  *)
(* answer, late transaction or re-planned epoch nothing else pays twice     *)
(* (build_emission_epoch's exactly-once attribution with the watermark and  *)
(* the manifest).                                                           *)
PaidOnce ==
    \A i, j \in EpochIds :
        i < j => \A b \in paid[i] \cap paid[j] : i \in narrowed /\ b \notin manifests[i]

(* The chain is never more than one epoch ahead of the watermark, so the    *)
(* run's "ALSO already published" refusal is unreachable.                   *)
OneEpochAhead ==
    \A id \in EpochIds : Published(id) => id <= watermark.last + 1

(* What recovery adopts is there, and covers what the chain paid: the       *)
(* manifest of an epoch that was published and not persisted names all its  *)
(* batches, although later runs may have overwritten it, unless one of them *)
(* scanned a window without some batch of the plan before                   *)
(* (_write_manifest).                                                       *)
ManifestCovers ==
    \A id \in EpochIds : Published(id) /\ id > watermark.last =>
        /\ manifests[id] # {}
        /\ id \in narrowed \/ paid[id] \subseteq manifests[id]

(* "a crash after publish is recovered by reading it back" (epoch_runner):  *)
(* the watermark catches up with every published epoch after the first.     *)
LaterEpochsRecovered ==
    \A id \in EpochIds \ {1} : Published(id) ~> watermark.last >= id
================================================================================
