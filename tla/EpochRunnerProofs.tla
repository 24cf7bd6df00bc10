--------------------------- MODULE EpochRunnerProofs ---------------------------
(****************************************************************************)
(* Theorems about OperatorRewardPool and EpochRunner, for every set of      *)
(* accounts, epochs, publishers and batches and every bound.                *)
(*                                                                          *)
(* The pool's part rests on PoolInv: the reserve is covered by the balance, *)
(* which is within what was paid in, and no epoch paid out more than its    *)
(* total.  The job's part rests on JobInv, about every plan that is being   *)
(* published or waits in the mempool: it names an epoch at most one ahead   *)
(* of the watermark and avoids the manifests of all earlier epochs, which   *)
(* the watermark has consumed, and the manifest of its own epoch covers it  *)
(* unless a later run narrowed that manifest.                               *)
(*                                                                          *)
(* The last part rests on ReserveInv: the reserve and what was claimed from *)
(* reclaimed epochs make up what the open epochs have not paid out.         *)
(****************************************************************************)
EXTENDS EpochRunner, SumTheorems, TLAPS

(* No epoch paid out more than its total. *)
ClaimedWithinTotal ==
    \A id \in EpochIds : epochs[id].claimedAmount <= epochs[id].totalAmount

(* The invariant of the pool. *)
PoolInv ==
    /\ PoolTypeOK
    /\ Solvent
    /\ balance <= funded
    /\ ClaimedWithinTotal

(* The pool starts empty (OperatorRewardPool's constructor). *)
LEMMA PoolInvInit ==
    ASSUME PoolInit
    PROVE  PoolInv
<1> USE PoolAssumption
<1>1. [a \in Accounts |-> 0] \in [Accounts -> Amounts]
  BY DEF Amounts
<1>2. NoEpoch \in Epoch
  BY <1>1 DEF NoEpoch, Epoch, Amounts
<1>3. NoEpoch.claimedAmount = 0 /\ NoEpoch.totalAmount = 0
  BY DEF NoEpoch
<1>4. epochs \in [EpochIds -> Epoch] /\ ClaimedWithinTotal
  BY <1>2, <1>3 DEF PoolInit, ClaimedWithinTotal
<1>5. hasClaimed \in [EpochIds -> SUBSET Accounts]
  BY DEF PoolInit
<1>6. totalReserved \in Nat /\ balance \in Nat /\ now \in Nat \ {0} /\ lateClaimed \in Nat
  BY DEF PoolInit
<1>7. funded \in Amounts /\ balance <= funded /\ Solvent
  BY DEF PoolInit, Amounts, Solvent
<1>8. paused \in BOOLEAN /\ rootPublisher \in Publishers
  BY DEF PoolInit
<1> QED BY <1>4, <1>5, <1>6, <1>7, <1>8 DEF PoolInv, PoolTypeOK

(* A publication within the surplus keeps the pool solvent (publishEpoch's  *)
(* solvency gate).                                                          *)
LEMMA PublishKeepsPool ==
    ASSUME PoolInv, NEW p, NEW id \in EpochIds, NEW leaves \in [Accounts -> Amounts],
           NEW total \in Amounts, PublishEpoch(p, id, leaves, total)
    PROVE  PoolInv'
<1> DEFINE e == [leaves |-> leaves, totalAmount |-> total, claimedAmount |-> 0,
                 publishedAt |-> now, reclaimed |-> FALSE]
<1> USE PoolAssumption DEF PoolInv, PoolTypeOK
<1>1. e.claimedAmount = 0 /\ e.totalAmount = total
  OBVIOUS
<1>2. e \in Epoch
  BY DEF Epoch, Amounts
<1>3. epochs' = [epochs EXCEPT ![id] = e]
  BY DEF PublishEpoch
<1>4. epochs' \in [EpochIds -> Epoch]
  BY <1>2, <1>3
<1>5. ClaimedWithinTotal'
  <2> HIDE DEF e
  <2> QED BY <1>1, <1>3 DEF ClaimedWithinTotal, Amounts
<1>6. /\ totalReserved' = totalReserved + total
      /\ balance >= totalReserved + total
      /\ UNCHANGED <<hasClaimed, paused, rootPublisher, balance, funded, now,
                     lateClaimed>>
  BY DEF PublishEpoch, Publishable, Covered
<1> QED BY <1>4, <1>5, <1>6 DEF Solvent, Amounts

(* A claim takes the same amount from the reserve and from the balance, and *)
(* never more than the epoch has left (claim).                              *)
LEMMA ClaimKeepsPool ==
    ASSUME PoolInv, NEW id \in EpochIds, NEW a \in Accounts, Claim(id, a)
    PROVE  PoolInv'
<1> DEFINE amount == epochs[id].leaves[a]
           e == [epochs[id] EXCEPT !.claimedAmount = @ + amount]
<1> USE PoolAssumption DEF PoolInv, PoolTypeOK, Amounts
<1>1. /\ epochs[id] \in Epoch
      /\ amount \in 0 .. MaxFunds
      /\ epochs[id].claimedAmount \in 0 .. MaxFunds
      /\ epochs[id].totalAmount \in 0 .. MaxFunds
  BY DEF Epoch
<1>2. epochs[id].claimedAmount + amount <= epochs[id].totalAmount
  BY <1>1 DEF Claim, Owed, Remaining
<1>3. e \in Epoch
  <2>1. epochs[id].claimedAmount + amount \in 0 .. MaxFunds
    BY <1>1, <1>2
  <2> HIDE DEF amount
  <2> QED BY <1>1, <2>1 DEF Epoch
<1>4. epochs' = [epochs EXCEPT ![id] = e]
  BY DEF Claim
<1>5. epochs' \in [EpochIds -> Epoch]
  BY <1>3, <1>4
<1>6. ClaimedWithinTotal'
  <2> SUFFICES ASSUME NEW i \in EpochIds
               PROVE  epochs'[i].claimedAmount <= epochs'[i].totalAmount
    BY DEF ClaimedWithinTotal
  <2>1. CASE i = id
    <3>1. /\ e.claimedAmount = epochs[id].claimedAmount + amount
          /\ e.totalAmount = epochs[id].totalAmount
      BY <1>1 DEF Epoch
    <3> QED BY <1>2, <1>4, <2>1, <3>1
  <2>2. CASE i # id
    BY <1>4, <2>2 DEF ClaimedWithinTotal
  <2> QED BY <2>1, <2>2
<1>7. /\ amount <= totalReserved
      /\ amount <= balance
      /\ totalReserved' = totalReserved - amount
      /\ balance' = balance - amount
      /\ hasClaimed' = [hasClaimed EXCEPT ![id] = @ \cup {a}]
      /\ UNCHANGED <<paused, rootPublisher, funded, now>>
  BY DEF Claim
<1>8. hasClaimed' \in [EpochIds -> SUBSET Accounts]
  BY <1>7
<1>9. lateClaimed' \in Nat
  BY <1>1 DEF Claim
<1> HIDE DEF amount, e
<1> QED BY <1>1, <1>5, <1>6, <1>7, <1>8, <1>9 DEF Solvent

(* A reclaim releases what the epoch did not pay out (reclaimUnclaimed). *)
LEMMA ReclaimKeepsPool ==
    ASSUME PoolInv, NEW id \in EpochIds, ReclaimUnclaimed(id)
    PROVE  PoolInv'
<1> DEFINE e == [epochs[id] EXCEPT !.reclaimed = TRUE]
<1> USE PoolAssumption DEF PoolInv, PoolTypeOK, Amounts
<1>1. /\ epochs[id] \in Epoch
      /\ epochs[id].claimedAmount \in 0 .. MaxFunds
      /\ epochs[id].totalAmount \in 0 .. MaxFunds
      /\ epochs[id].claimedAmount <= epochs[id].totalAmount
  BY DEF Epoch, ClaimedWithinTotal
<1>2. e \in Epoch /\ epochs' = [epochs EXCEPT ![id] = e]
  BY <1>1 DEF Epoch, ReclaimUnclaimed
<1>3. /\ e.claimedAmount = epochs[id].claimedAmount
      /\ e.totalAmount = epochs[id].totalAmount
  BY <1>1 DEF Epoch
<1>4. epochs' \in [EpochIds -> Epoch]
  BY <1>2
<1>5. ClaimedWithinTotal'
  BY <1>2, <1>3 DEF ClaimedWithinTotal
<1>6. /\ Remaining(id) \in Nat
      /\ Remaining(id) <= totalReserved
      /\ totalReserved' = totalReserved - Remaining(id)
      /\ UNCHANGED <<hasClaimed, paused, rootPublisher, balance, funded, now,
                     lateClaimed>>
  BY <1>1 DEF ReclaimUnclaimed, Remaining
<1> QED BY <1>4, <1>5, <1>6 DEF Solvent

(* Everything the pool does besides publishing keeps it solvent. *)
LEMMA PoolStepKeepsPool ==
    ASSUME PoolInv, PoolStep
    PROVE  PoolInv'
<1>1. CASE \E id \in EpochIds, a \in Accounts : Claim(id, a)
  BY <1>1, ClaimKeepsPool
<1>2. CASE \E p \in Publishers : SetRootPublisher(p)
  BY <1>2 DEF SetRootPublisher, PoolInv, PoolTypeOK, Solvent, ClaimedWithinTotal
<1>3. CASE \E p \in BOOLEAN : SetPaused(p)
  BY <1>3 DEF SetPaused, PoolInv, PoolTypeOK, Solvent, ClaimedWithinTotal
<1>4. CASE \E amount \in Amounts : SweepSurplus(amount)
  BY <1>4, PoolAssumption DEF SweepSurplus, PoolInv, PoolTypeOK, Solvent,
     ClaimedWithinTotal, Amounts
<1>5. CASE \E amount \in Amounts : Fund(amount)
  BY <1>5, PoolAssumption DEF Fund, PoolInv, PoolTypeOK, Solvent, ClaimedWithinTotal,
     Amounts
<1>6. CASE \E id \in EpochIds : ReclaimUnclaimed(id)
  BY <1>6, ReclaimKeepsPool
<1>7. CASE AdvanceTime
  BY <1>7 DEF AdvanceTime, PoolInv, PoolTypeOK, Solvent, ClaimedWithinTotal
<1> QED BY <1>1, <1>2, <1>3, <1>4, <1>5, <1>6, <1>7 DEF PoolStep

(* A stuttering step keeps the pool's invariant. *)
LEMMA PoolStutter ==
    ASSUME PoolInv, UNCHANGED poolVars
    PROVE  PoolInv'
BY DEF poolVars, PoolInv, PoolTypeOK, Solvent, ClaimedWithinTotal

(* The pool on its own, with publishers that choose leaves and totals       *)
(* freely and earners that claim late, never promises more than it holds    *)
(* (publishEpoch, claim, sweepSurplus and reclaimUnclaimed).                *)
THEOREM PoolSolvent == PoolSpec => []Solvent
<1>1. PoolInv /\ [PoolNext]_poolVars => PoolInv'
  BY PublishKeepsPool, PoolStepKeepsPool, PoolStutter DEF PoolNext
<1>2. PoolInv => Solvent
  BY DEF PoolInv
<1> QED BY PoolInvInit, <1>1, <1>2, PTL DEF PoolSpec

--------------------------------------------------------------------------------
(* The types of the job's variables. *)
JobTypeOK ==
    /\ watermark \in WatermarkFile
    /\ manifests \in [EpochIds -> SUBSET Batches]
    /\ finalized \subseteq Batches
    /\ run \in [at : {"idle", "publish", "persist"}, plan : Plan]
    /\ mempool \in Seq(Plan)
    /\ paid \in [EpochIds -> SUBSET Batches]
    /\ narrowed \subseteq EpochIds
    /\ sent \in 0 .. MaxSent

(* A plan that is about to be published, or waits to be mined. *)
InFlight(P) ==
    \/ \E i \in DOMAIN mempool : mempool[i] = P
    \/ run.at # "idle" /\ run.plan = P

(* Such a plan names an epoch of the model. *)
FlightIds == \A P \in Plan : InFlight(P) => P.id \in EpochIds

(* The invariant of the types. *)
TypeInv == PoolInv /\ JobTypeOK /\ FlightIds

(* Nothing is planned outside the surplus, so a pot is an amount (the pot   *)
(* check of build_emission_epoch).                                          *)
LEMMA PlanIsTyped ==
    ASSUME TypeInv, NEW id \in EpochIds, NEW batches \in SUBSET Batches,
           NEW pot \in 1 .. balance - totalReserved, NEW leaves \in Shares(batches, pot)
    PROVE  [id |-> id, batches |-> batches, pot |-> pot, leaves |-> leaves] \in Plan
<1> USE PoolAssumption
<1>1. pot \in Amounts
  BY DEF TypeInv, PoolInv, PoolTypeOK, Amounts
<1>2. leaves \in [Accounts -> 0 .. pot]
  BY DEF Shares
<1>3. leaves \in [Accounts -> Amounts]
  BY <1>1, <1>2 DEF Amounts
<1>4. id \in Nat
  OBVIOUS
<1> QED BY <1>1, <1>3, <1>4 DEF Plan

(* Apart from planning, the job and the chain only move plans on or forget  *)
(* them (publish_epoch, the process's death, and the mempool).              *)
LEMMA FlightShrinks ==
    ASSUME TypeInv, NEW P \in Plan, InFlight(P)',
           \/ Broadcast \/ PersistWatermark \/ Stop \/ MinePublish \/ MineRevert
           \/ \E i \in DOMAIN mempool : Evict(i)
           \/ UNCHANGED <<run, mempool>>
    PROVE  InFlight(P)
<1> USE DEF InFlight, TypeInv, JobTypeOK
<1>1. CASE Broadcast
  <2>1. mempool' = Append(mempool, run.plan) /\ run.at = "publish"
    BY <1>1 DEF Broadcast
  <2>2. \/ run'.at = "idle"
        \/ run'.plan = run.plan
    BY <1>1 DEF Broadcast, Idle
  <2>3. CASE \E i \in DOMAIN mempool' : mempool'[i] = P
    <3>1. PICK i \in DOMAIN mempool' : mempool'[i] = P
      BY <2>3
    <3>2. CASE i \in DOMAIN mempool
      BY <2>1, <3>1, <3>2
    <3>3. CASE i = Len(mempool) + 1
      BY <2>1, <3>1, <3>3
    <3> QED BY <2>1, <3>1, <3>2, <3>3
  <2>4. CASE run'.at # "idle" /\ run'.plan = P
    BY <2>1, <2>2, <2>4
  <2> QED BY <2>3, <2>4
<1>2. CASE PersistWatermark \/ Stop
  BY <1>2 DEF PersistWatermark, Stop, Idle
<1>3. CASE MinePublish \/ MineRevert
  <2>1. mempool # <<>> /\ mempool' = Tail(mempool) /\ run' = run
    BY <1>3 DEF MinePublish, MineRevert
  <2>2. ASSUME NEW i \in DOMAIN mempool' PROVE i + 1 \in DOMAIN mempool
                                               /\ mempool'[i] = mempool[i + 1]
    BY <2>1
  <2> QED BY <2>1, <2>2
<1>4. CASE \E i \in DOMAIN mempool : Evict(i)
  <2>1. PICK k \in DOMAIN mempool : mempool' = SubSeq(mempool, 1, k - 1) /\ run' = run
    BY <1>4 DEF Evict
  <2>2. ASSUME NEW i \in DOMAIN mempool' PROVE i \in DOMAIN mempool
                                               /\ mempool'[i] = mempool[i]
    BY <2>1
  <2> QED BY <2>1, <2>2
<1>5. CASE UNCHANGED <<run, mempool>>
  BY <1>5
<1> QED BY <1>1, <1>2, <1>3, <1>4, <1>5

(* The epoch that is mined is one the job planned (publish_epoch). *)
LEMMA MinedIsPlan ==
    ASSUME TypeInv, mempool # <<>>
    PROVE  Mined \in Plan /\ InFlight(Mined) /\ Mined.id \in EpochIds
<1>1. mempool \in Seq(Plan) /\ 1 \in DOMAIN mempool /\ Mined = mempool[1]
  BY DEF TypeInv, JobTypeOK, Mined
<1>2. Mined \in Plan /\ InFlight(Mined)
  BY <1>1 DEF InFlight
<1> QED BY <1>2 DEF TypeInv, FlightIds

(* A run that begins either leaves the job idle or holds one new plan for   *)
(* the epoch after the watermark it saved, of some finalized batches that   *)
(* are not consumed, which are the manifest (steps 3 to 5 of run_epoch).    *)
NewPlan ==
    LET id == watermark'.last + 1
        fresh == run'.plan.batches
    IN  /\ id \in EpochIds
        /\ ~Published(id)
        /\ fresh # {}
        /\ fresh \subseteq finalized \ watermark'.consumed
        /\ run'.at = "publish"
        /\ run'.plan \in Plan
        /\ run'.plan.id = id
        /\ WriteManifest(id, fresh)

(* NewPlan is what a run that does not refuse leaves behind (run_epoch up   *)
(* to the broadcast).                                                       *)
LEMMA RunBegins ==
    ASSUME TypeInv, BeginRun
    PROVE  /\ run = Idle
           /\ watermark' = Adopted
           /\ UNCHANGED <<poolVars, finalized, mempool, paid, sent>>
           /\ (run' \in [at : {"idle", "publish", "persist"}, plan : Plan]
                 /\ NewPlan)
              \/ UNCHANGED <<run, manifests, narrowed>>
<1>1. /\ run = Idle
      /\ watermark' = Adopted
      /\ UNCHANGED <<poolVars, finalized, mempool, paid, sent>>
      /\ PlanEpoch(watermark') \/ UNCHANGED <<run, manifests, narrowed>>
  BY DEF BeginRun
<1>2. ASSUME PlanEpoch(watermark')
      PROVE  run' \in [at : {"idle", "publish", "persist"}, plan : Plan] /\ NewPlan
  <2> DEFINE id == watermark'.last + 1
  <2>1. id \in EpochIds /\ ~Published(id)
    BY <1>2 DEF PlanEpoch, NextId
  <2>2. PICK fresh \in Fresh(watermark') : Planned(id, fresh) /\ WriteManifest(id, fresh)
    BY <1>2 DEF PlanEpoch, NextId
  <2>3. fresh # {} /\ fresh \subseteq finalized \ watermark'.consumed
    BY DEF Fresh
  <2>4. fresh \in SUBSET Batches
    BY <2>3 DEF TypeInv, JobTypeOK
  <2> HIDE DEF id
  <2>5. PICK pot \in 1 .. balance - totalReserved : \E leaves \in Shares(fresh, pot) :
           run' = [at |-> "publish", plan |-> [id |-> id, batches |-> fresh,
                                               pot |-> pot, leaves |-> leaves]]
    BY <2>2 DEF Planned
  <2>6. PICK leaves \in Shares(fresh, pot) :
           run' = [at |-> "publish", plan |-> [id |-> id, batches |-> fresh,
                                               pot |-> pot, leaves |-> leaves]]
    BY <2>5
  <2>7. [id |-> id, batches |-> fresh, pot |-> pot, leaves |-> leaves] \in Plan
    BY <2>1, <2>4, PlanIsTyped
  <2>8. /\ run' \in [at : {"idle", "publish", "persist"}, plan : Plan]
        /\ run'.at = "publish"
        /\ run'.plan \in Plan
        /\ run'.plan.id = id
        /\ run'.plan.batches = fresh
    BY <2>6, <2>7
  <2> QED BY <2>1, <2>2, <2>3, <2>8 DEF NewPlan, id
<1> QED BY <1>1, <1>2

(* Adopting a manifest or recording a plan keeps the watermark well formed. *)
LEMMA WatermarkTyped ==
    ASSUME NEW wm \in WatermarkFile, NEW id \in Nat, NEW batches \in SUBSET Batches
    PROVE  CommitEpoch(wm, id, batches) \in WatermarkFile
BY DEF CommitEpoch, WatermarkFile

(* So does the watermark a run goes on with after step 3 of run_epoch. *)
LEMMA AdoptedTyped ==
    ASSUME TypeInv
    PROVE  Adopted \in WatermarkFile
<1>1. watermark \in WatermarkFile /\ watermark.last + 1 \in Nat
  BY DEF TypeInv, JobTypeOK, WatermarkFile
<1>2. CASE Exists(NextId(watermark))
  <2>1. manifests[NextId(watermark)] \in SUBSET Batches
    BY <1>2 DEF Exists, TypeInv, JobTypeOK
  <2> QED BY <1>1, <1>2, <2>1, WatermarkTyped DEF Adopted, NextId
<1> QED BY <1>1, <1>2 DEF Adopted

(* Every step of the job, the chain and the pool's owner keeps the types,   *)
(* the pool's invariant among them.                                         *)
LEMMA TypeInvStep ==
    ASSUME TypeInv, [Next]_vars
    PROVE  TypeInv'
<1>1. CASE \E b \in Batches : FinalizeBatch(b)
  <2>1. UNCHANGED <<poolVars, watermark, manifests, run, mempool, paid, narrowed, sent>>
        /\ finalized' \subseteq Batches
    BY <1>1 DEF FinalizeBatch, TypeInv, JobTypeOK
  <2>2. PoolInv'
    BY <2>1, PoolStutter DEF TypeInv
  <2> QED BY <2>1, <2>2 DEF TypeInv, JobTypeOK, FlightIds, InFlight
<1>2. CASE BeginRun
  <2>1. PoolInv'
    BY <1>2, RunBegins, PoolStutter DEF TypeInv
  <2>2. watermark' \in WatermarkFile
    BY <1>2, RunBegins, AdoptedTyped
  <2>3. manifests' \in [EpochIds -> SUBSET Batches] /\ narrowed' \subseteq EpochIds
    <3>1. CASE NewPlan
      BY <3>1 DEF NewPlan, WriteManifest, TypeInv, JobTypeOK, Plan
    <3>2. CASE UNCHANGED <<run, manifests, narrowed>>
      BY <3>2 DEF TypeInv, JobTypeOK
    <3> QED BY <1>2, <3>1, <3>2, RunBegins
  <2>4. run' \in [at : {"idle", "publish", "persist"}, plan : Plan]
    BY <1>2, RunBegins DEF TypeInv, JobTypeOK
  <2>5. FlightIds'
    BY <1>2, RunBegins DEF FlightIds, InFlight, NewPlan, TypeInv
  <2> QED
    BY <1>2, <2>1, <2>2, <2>3, <2>4, <2>5, RunBegins DEF TypeInv, JobTypeOK
<1>3. CASE Broadcast
  <2>1. FlightIds'
    BY <1>3, FlightShrinks DEF FlightIds, TypeInv
  <2>2. PoolInv'
    BY <1>3, PoolStutter DEF Broadcast, TypeInv
  <2>3. mempool' \in Seq(Plan)
    BY <1>3 DEF Broadcast, TypeInv, JobTypeOK
  <2>4. run' \in [at : {"idle", "publish", "persist"}, plan : Plan]
    <3>1. run' = [run EXCEPT !.at = "persist"] \/ run' = Idle
      BY <1>3 DEF Broadcast
    <3>2. NoPlan \in Plan
      BY PoolAssumption DEF NoPlan, Plan, Amounts
    <3> QED BY <3>1, <3>2 DEF TypeInv, JobTypeOK, Idle
  <2>5. sent' \in 0 .. MaxSent
    BY <1>3, RunnerAssumption DEF Broadcast, TypeInv, JobTypeOK
  <2> QED BY <1>3, <2>1, <2>2, <2>3, <2>4, <2>5 DEF Broadcast, TypeInv, JobTypeOK
<1>4. CASE PersistWatermark \/ Stop
  <2>1. FlightIds'
    BY <1>4, FlightShrinks DEF FlightIds, TypeInv
  <2>2. PoolInv'
    BY <1>4, PoolStutter DEF PersistWatermark, Stop, TypeInv
  <2>3. NoPlan \in Plan
    BY PoolAssumption DEF NoPlan, Plan, Amounts
  <2>4. run' \in [at : {"idle", "publish", "persist"}, plan : Plan]
    BY <1>4, <2>3 DEF PersistWatermark, Stop, Idle
  <2>5. run.plan.id \in Nat /\ run.plan.batches \in SUBSET Batches
    BY DEF TypeInv, JobTypeOK, Plan
  <2>6. watermark' \in WatermarkFile
    BY <1>4, <2>5, WatermarkTyped DEF PersistWatermark, Stop, TypeInv, JobTypeOK
  <2> QED
    BY <1>4, <2>1, <2>2, <2>4, <2>6 DEF PersistWatermark, Stop, TypeInv, JobTypeOK
<1>5. CASE MinePublish
  <2>1. FlightIds'
    BY <1>5, FlightShrinks DEF FlightIds, TypeInv
  <2>2. Mined \in Plan /\ Mined.id \in EpochIds
    BY <1>5, MinedIsPlan DEF MinePublish
  <2>3. /\ Mined.leaves \in [Accounts -> Amounts]
        /\ Mined.pot \in Amounts
        /\ Mined.batches \in SUBSET Batches
    BY <2>2 DEF Plan
  <2>4. PoolInv'
    BY <1>5, <2>2, <2>3, PublishKeepsPool DEF MinePublish, TypeInv
  <2>5. mempool' \in Seq(Plan)
    BY <1>5 DEF MinePublish, TypeInv, JobTypeOK
  <2>6. paid' \in [EpochIds -> SUBSET Batches]
    BY <1>5, <2>2, <2>3 DEF MinePublish, TypeInv, JobTypeOK
  <2> QED BY <1>5, <2>1, <2>4, <2>5, <2>6 DEF MinePublish, TypeInv, JobTypeOK
<1>6. CASE MineRevert \/ \E i \in DOMAIN mempool : Evict(i)
  <2>1. FlightIds'
    BY <1>6, FlightShrinks DEF FlightIds, TypeInv
  <2>2. UNCHANGED <<poolVars, watermark, manifests, finalized, run, paid, narrowed, sent>>
    BY <1>6 DEF MineRevert, Evict
  <2>3. PoolInv'
    BY <2>2, PoolStutter DEF TypeInv
  <2>4. mempool' \in Seq(Plan)
    <3>1. CASE MineRevert
      BY <3>1 DEF MineRevert, TypeInv, JobTypeOK
    <3>2. ASSUME NEW i \in DOMAIN mempool, Evict(i)
          PROVE  mempool' \in Seq(Plan)
      BY <3>2 DEF Evict, TypeInv, JobTypeOK
    <3> QED BY <1>6, <3>1, <3>2
  <2> QED BY <2>1, <2>2, <2>3, <2>4 DEF TypeInv, JobTypeOK
<1>7. CASE PoolStep /\ UNCHANGED jobVars
  <2>1. PoolInv'
    BY <1>7, PoolStepKeepsPool DEF TypeInv
  <2> QED BY <1>7, <2>1 DEF jobVars, TypeInv, JobTypeOK, FlightIds, InFlight
<1>8. CASE UNCHANGED vars
  <2>1. PoolInv'
    BY <1>8, PoolStutter DEF vars, TypeInv
  <2> QED BY <1>8, <2>1 DEF vars, jobVars, TypeInv, JobTypeOK, FlightIds, InFlight
<1> QED
  BY <1>1, <1>2, <1>3, <1>4, <1>5, <1>6, <1>7, <1>8 DEF Next, RunStep

(* The job starts idle, with no file and nothing in the mempool. *)
LEMMA TypeInvInit ==
    ASSUME Init
    PROVE  TypeInv
<1>1. PoolInv
  BY PoolInvInit DEF Init
<1>2. NoPlan \in Plan
  BY PoolAssumption DEF NoPlan, Plan, Amounts
<1>3. JobTypeOK
  BY <1>2, RunnerAssumption DEF Init, JobTypeOK, WatermarkFile, Idle
<1>4. FlightIds
  BY DEF Init, FlightIds, InFlight, Idle
<1> QED BY <1>1, <1>3, <1>4 DEF TypeInv

--------------------------------------------------------------------------------
(* An epoch the chain has, or may still get. *)
Known(i) == Published(i) \/ \E P \in Plan : InFlight(P) /\ P.id = i

(* Epoch i pays batch b, or will if one of its plans is mined. *)
Attributed(i, b) ==
    \/ b \in paid[i]
    \/ \E P \in Plan : InFlight(P) /\ P.id = i /\ b \in P.batches

(* What holds of the known epochs under a watermark wm, which is the file's *)
(* or the one a run has just adopted.                                       *)
AtMostOneAhead(wm) ==
    \A i \in EpochIds : Known(i) =>
        i <= wm.last + 1 /\ (i = wm.last + 1 => manifests[i] # {})

(* The watermark has consumed the manifests of the epochs up to it. *)
ManifestsConsumed(wm) ==
    \A i \in EpochIds : i <= wm.last => manifests[i] \subseteq wm.consumed

(* No epoch takes a batch that the manifest of an earlier one names. *)
AvoidsEarlier ==
    \A i, j \in EpochIds, b \in Batches :
        Attributed(j, b) /\ i < j => b \notin manifests[i]

(* The manifest of an epoch names its batches, unless it was narrowed. *)
InManifest ==
    \A i \in EpochIds \ narrowed, b \in Batches :
        Attributed(i, b) => b \in manifests[i]

(* Only published epochs have paid. *)
PaidIsKnown == \A i \in EpochIds : paid[i] # {} => Published(i)

(* The running job publishes what the manifest it wrote says. *)
PlanIsManifest ==
    run.at # "idle" =>
        /\ run.plan.id = watermark.last + 1
        /\ run.plan.batches = manifests[run.plan.id]

(* All of it under one watermark. *)
Facts(wm) ==
    /\ AtMostOneAhead(wm)
    /\ ManifestsConsumed(wm)
    /\ AvoidsEarlier
    /\ InManifest
    /\ PaidIsKnown

(* The inductive invariant of the job and the pool. *)
JobInv == TypeInv /\ Facts(watermark) /\ PlanIsManifest

(* What is attributed to an epoch belongs to a known one. *)
LEMMA AttributedIsKnown ==
    ASSUME PaidIsKnown, NEW i \in EpochIds, NEW b \in Batches, Attributed(i, b)
    PROVE  Known(i)
BY DEF PaidIsKnown, Attributed, Known

(* Recording the next epoch with everything in its manifest keeps the       *)
(* facts: whatever was one ahead is now behind, and consumed (commit_epoch, *)
(* from the recovery or after the broadcast).                               *)
LEMMA AdvanceKeepsFacts ==
    ASSUME TypeInv, Facts(watermark), NEW wm, watermark.last + 1 \in EpochIds,
           wm.last = watermark.last + 1,
           wm.consumed = watermark.consumed \cup manifests[watermark.last + 1]
    PROVE  Facts(wm)
<1>1. watermark.last \in Nat /\ EpochIds \subseteq Nat
  BY PoolAssumption DEF TypeInv, JobTypeOK, WatermarkFile
<1>2. AtMostOneAhead(wm)
  BY <1>1 DEF Facts, AtMostOneAhead
<1>3. ManifestsConsumed(wm)
  <2> SUFFICES ASSUME NEW i \in EpochIds, i <= wm.last
               PROVE  manifests[i] \subseteq wm.consumed
    BY DEF ManifestsConsumed
  <2>1. i <= watermark.last \/ i = watermark.last + 1
    BY <1>1
  <2> QED BY <2>1 DEF Facts, ManifestsConsumed
<1> QED BY <1>2, <1>3 DEF Facts

(* Adopting the manifest of a published epoch keeps the facts (step 3 of    *)
(* run_epoch).                                                              *)
LEMMA AdoptKeepsFacts ==
    ASSUME TypeInv, Facts(watermark)
    PROVE  Facts(Adopted)
<1>1. watermark \in WatermarkFile /\ watermark.last \in Nat
  BY DEF TypeInv, JobTypeOK, WatermarkFile
<1>2. CASE Exists(NextId(watermark))
  <2>1. watermark.last + 1 \in EpochIds
    BY <1>2 DEF Exists, NextId
  <2>2. /\ Adopted.last = watermark.last + 1
        /\ Adopted.consumed = watermark.consumed \cup manifests[watermark.last + 1]
    BY <1>1, <1>2 DEF Adopted, CommitEpoch, NextId
  <2> QED BY <2>1, <2>2, AdvanceKeepsFacts
<1> QED BY <1>2 DEF Adopted

(* A step that only moves plans on, forgets them, or finalizes more batches *)
(* keeps the facts, under whatever watermark it leaves.                     *)
LEMMA ShrinkKeepsFacts ==
    ASSUME Facts(watermark'), UNCHANGED <<manifests, narrowed>>,
           \A i \in EpochIds : Known(i)' => Known(i),
           \A i \in EpochIds, b \in Batches : Attributed(i, b)' => Attributed(i, b),
           PaidIsKnown'
    PROVE  Facts(watermark)'
<1>1. AtMostOneAhead(watermark)'
  BY DEF Facts, AtMostOneAhead
<1>2. ManifestsConsumed(watermark)'
  BY DEF Facts, ManifestsConsumed
<1>3. AvoidsEarlier'
  BY DEF Facts, AvoidsEarlier
<1>4. InManifest'
  BY DEF Facts, InManifest
<1> QED BY <1>1, <1>2, <1>3, <1>4 DEF Facts

(* The pool's calls other than publishEpoch publish nothing. *)
LEMMA PoolStepPublishesNothing ==
    ASSUME TypeInv, PoolStep \/ UNCHANGED poolVars, NEW i \in EpochIds
    PROVE  Published(i)' <=> Published(i)
<1> USE DEF Published
<1>0. epochs \in [EpochIds -> Epoch]
  BY DEF TypeInv, PoolInv, PoolTypeOK
<1>1. ASSUME NEW id \in EpochIds, NEW a \in Accounts, Claim(id, a)
      PROVE  epochs'[i].publishedAt = epochs[i].publishedAt
  BY <1>0, <1>1 DEF Claim, Epoch
<1>2. ASSUME NEW id \in EpochIds, ReclaimUnclaimed(id)
      PROVE  epochs'[i].publishedAt = epochs[i].publishedAt
  BY <1>0, <1>2 DEF ReclaimUnclaimed, Epoch
<1>3. CASE \/ \E p \in Publishers : SetRootPublisher(p)
           \/ \E p \in BOOLEAN : SetPaused(p)
           \/ \E amount \in Amounts : SweepSurplus(amount) \/ Fund(amount)
           \/ AdvanceTime
           \/ UNCHANGED poolVars
  BY <1>3 DEF SetRootPublisher, SetPaused, SweepSurplus, Fund, AdvanceTime, poolVars
<1> QED BY <1>1, <1>2, <1>3 DEF PoolStep

(* A step that publishes nothing, pays nothing and plans nothing makes no   *)
(* epoch known and attributes no batch.                                     *)
LEMMA QuietStep ==
    ASSUME PaidIsKnown, UNCHANGED paid,
           \A i \in EpochIds : Published(i)' <=> Published(i),
           \A P \in Plan : InFlight(P)' => InFlight(P)
    PROVE  /\ \A i \in EpochIds : Known(i)' => Known(i)
           /\ \A i \in EpochIds, b \in Batches : Attributed(i, b)' => Attributed(i, b)
           /\ PaidIsKnown'
BY DEF Known, Attributed, PaidIsKnown

(* Planning keeps the facts: the new plan takes nothing that a manifest     *)
(* behind the watermark names, and where the manifest it overwrites was not *)
(* within its batches the epoch is narrowed (_write_manifest over an        *)
(* earlier plan of the same epoch).                                         *)
LEMMA PlanKeepsFacts ==
    ASSUME TypeInv, TypeInv', Facts(watermark'), NewPlan, run = Idle,
           UNCHANGED <<poolVars, finalized, mempool, paid>>
    PROVE  Facts(watermark)'
<1> DEFINE id == watermark'.last + 1
           fresh == run'.plan.batches
<1>1. /\ id \in EpochIds
      /\ fresh # {}
      /\ fresh \cap watermark'.consumed = {}
      /\ run'.at = "publish"
      /\ run'.plan \in Plan
      /\ run'.plan.id = id
      /\ manifests' = [manifests EXCEPT ![id] = fresh]
      /\ narrowed' = IF manifests[id] \subseteq fresh THEN narrowed ELSE narrowed \cup {id}
  BY DEF NewPlan, WriteManifest
<1>2. /\ watermark'.last \in Nat
      /\ EpochIds \subseteq Nat
      /\ manifests \in [EpochIds -> SUBSET Batches]
  BY PoolAssumption DEF TypeInv, JobTypeOK, WatermarkFile
<1>0. fresh = run'.plan.batches
  OBVIOUS
<1> HIDE DEF id, fresh
<1>3. ASSUME NEW P \in Plan, InFlight(P)', P # run'.plan
      PROVE  InFlight(P)
  BY <1>3 DEF InFlight
<1>4. \A i \in EpochIds : Known(i)' => Known(i) \/ i = id
  BY <1>1, <1>3, PoolStepPublishesNothing DEF Known
<1>5. \A i \in EpochIds, b \in Batches :
         Attributed(i, b)' => Attributed(i, b) \/ (i = id /\ b \in fresh)
  BY <1>0, <1>1, <1>3 DEF Attributed
<1>6. AtMostOneAhead(watermark)'
  BY <1>1, <1>2, <1>4 DEF Facts, AtMostOneAhead, id
<1>7. manifests'[id] = fresh /\ \A i \in EpochIds \ {id} : manifests'[i] = manifests[i]
  BY <1>1, <1>2
<1>8. ManifestsConsumed(watermark)'
  BY <1>2, <1>7 DEF Facts, ManifestsConsumed, id
<1>9. AvoidsEarlier'
  <2> SUFFICES ASSUME NEW i \in EpochIds, NEW j \in EpochIds, NEW b \in Batches,
                      Attributed(j, b)', i < j
               PROVE  b \notin manifests'[i]
    BY DEF AvoidsEarlier
  <2>1. CASE j = id /\ b \in fresh
    <3>1. i <= watermark'.last /\ i # id
      BY <1>2, <2>1 DEF id
    <3> QED BY <1>1, <1>7, <2>1, <3>1 DEF Facts, ManifestsConsumed
  <2>2. CASE Attributed(j, b)
    <3>1. Known(j)
      BY <2>2, AttributedIsKnown DEF Facts
    <3>2. i # id
      BY <1>1, <1>2, <3>1 DEF Facts, AtMostOneAhead, id
    <3> QED BY <1>7, <2>2, <3>2 DEF Facts, AvoidsEarlier
  <2> QED BY <1>5, <2>1, <2>2
<1>10. InManifest'
  <2> SUFFICES ASSUME NEW i \in EpochIds, i \notin narrowed', NEW b \in Batches,
                      Attributed(i, b)'
               PROVE  b \in manifests'[i]
    BY DEF InManifest
  <2>1. i \notin narrowed /\ (i = id => manifests[id] \subseteq fresh)
    BY <1>1
  <2>2. CASE i = id /\ b \in fresh
    BY <1>7, <2>2
  <2>3. CASE Attributed(i, b)
    <3>1. b \in manifests[i]
      BY <2>1, <2>3 DEF Facts, InManifest
    <3> QED BY <1>7, <2>1, <3>1
  <2> QED BY <1>5, <2>2, <2>3
<1>11. PaidIsKnown'
  BY PoolStepPublishesNothing DEF Facts, PaidIsKnown
<1> QED BY <1>6, <1>8, <1>9, <1>10, <1>11 DEF Facts

(* Every step of the job, the mempool and the pool keeps the invariant      *)
(* (run_epoch, publish_epoch and publishEpoch).                             *)
LEMMA JobInvStep ==
    ASSUME JobInv, [Next]_vars
    PROVE  JobInv'
<1>1. TypeInv /\ TypeInv' /\ Facts(watermark) /\ PaidIsKnown /\ PlanIsManifest
  BY TypeInvStep DEF JobInv, Facts
<1>2. CASE BeginRun
  <2>1. run = Idle /\ Facts(watermark')
    BY <1>1, <1>2, RunBegins, AdoptKeepsFacts
  <2>2. CASE NewPlan
    <3>1. Facts(watermark)'
      BY <1>1, <1>2, <2>1, <2>2, RunBegins, PlanKeepsFacts
    <3>2. PlanIsManifest'
      BY <1>1, <2>2 DEF NewPlan, WriteManifest, PlanIsManifest, TypeInv, JobTypeOK
    <3> QED BY <1>1, <3>1, <3>2 DEF JobInv
  <2>3. CASE UNCHANGED <<run, manifests, narrowed>>
    <3>1. UNCHANGED <<poolVars, finalized, mempool, paid>>
      BY <1>1, <1>2, RunBegins
    <3>2. \A P \in Plan : InFlight(P)' => InFlight(P)
      BY <2>3, <3>1 DEF InFlight
    <3>3. \A i \in EpochIds : Published(i)' <=> Published(i)
      BY <1>1, <3>1, PoolStepPublishesNothing
    <3>4. Facts(watermark)'
      BY <1>1, <2>1, <2>3, <3>1, <3>2, <3>3, QuietStep, ShrinkKeepsFacts
    <3>5. PlanIsManifest'
      BY <2>1, <2>3 DEF PlanIsManifest, Idle
    <3> QED BY <1>1, <3>4, <3>5 DEF JobInv
  <2> QED BY <1>1, <1>2, <2>2, <2>3, RunBegins
<1>3. CASE MinePublish
  <2>1. Mined \in Plan /\ InFlight(Mined) /\ Mined.id \in EpochIds
    BY <1>1, <1>3, MinedIsPlan DEF MinePublish
  <2>2. /\ paid' = [paid EXCEPT ![Mined.id] = Mined.batches]
        /\ UNCHANGED <<watermark, manifests, narrowed, run, now>>
        /\ epochs' = [epochs EXCEPT ![Mined.id] =
              [leaves |-> Mined.leaves, totalAmount |-> Mined.pot,
               claimedAmount |-> 0, publishedAt |-> now, reclaimed |-> FALSE]]
    BY <1>3 DEF MinePublish, PublishEpoch
  <2>3. \A P \in Plan : InFlight(P)' => InFlight(P)
    BY <1>1, <1>3, FlightShrinks
  <2>4. epochs \in [EpochIds -> Epoch] /\ now # 0
    BY <1>1 DEF TypeInv, PoolInv, PoolTypeOK
  <2>5. \A i \in EpochIds : Published(i)' <=> Published(i) \/ i = Mined.id
    BY <2>1, <2>2, <2>4 DEF Published
  <2>6. \A i \in EpochIds : Known(i)' => Known(i)
    BY <2>1, <2>3, <2>5 DEF Known
  <2>7. paid \in [EpochIds -> SUBSET Batches]
    BY <1>1 DEF TypeInv, JobTypeOK
  <2>8. \A i \in EpochIds, b \in Batches : Attributed(i, b)' => Attributed(i, b)
    BY <2>1, <2>2, <2>3, <2>7 DEF Attributed
  <2>9. PaidIsKnown'
    BY <1>1, <2>2, <2>5, <2>7 DEF PaidIsKnown
  <2>10. Facts(watermark)'
    BY <1>1, <2>2, <2>6, <2>8, <2>9, ShrinkKeepsFacts
  <2>11. PlanIsManifest'
    BY <1>1, <2>2 DEF PlanIsManifest
  <2> QED BY <1>1, <2>10, <2>11 DEF JobInv
<1>4. CASE PersistWatermark
  <2>1. /\ run.at = "persist"
        /\ watermark' = CommitEpoch(watermark, run.plan.id, run.plan.batches)
        /\ run' = Idle
        /\ UNCHANGED <<poolVars, manifests, narrowed, mempool, paid>>
    BY <1>4 DEF PersistWatermark
  <2>2. /\ run.plan.id = watermark.last + 1
        /\ run.plan.batches = manifests[watermark.last + 1]
    BY <1>1, <2>1 DEF PlanIsManifest
  <2>3. watermark.last + 1 \in EpochIds
    BY <1>1, <2>1, <2>2 DEF TypeInv, JobTypeOK, FlightIds, InFlight
  <2>4. watermark.last \in Nat
    BY <1>1 DEF TypeInv, JobTypeOK, WatermarkFile
  <2>5. /\ watermark'.last = watermark.last + 1
        /\ watermark'.consumed = watermark.consumed \cup manifests[watermark.last + 1]
    BY <2>1, <2>2, <2>4 DEF CommitEpoch
  <2>6. Facts(watermark')
    BY <1>1, <2>3, <2>5, AdvanceKeepsFacts
  <2>7. \A P \in Plan : InFlight(P)' => InFlight(P)
    BY <1>1, <1>4, FlightShrinks
  <2>8. \A i \in EpochIds : Published(i)' <=> Published(i)
    BY <1>1, <2>1, PoolStepPublishesNothing
  <2>9. Facts(watermark)'
    BY <1>1, <2>1, <2>6, <2>7, <2>8, QuietStep, ShrinkKeepsFacts
  <2>10. PlanIsManifest'
    BY <2>1 DEF PlanIsManifest, Idle
  <2> QED BY <1>1, <2>9, <2>10 DEF JobInv
<1>5. CASE \/ \E b \in Batches : FinalizeBatch(b)
           \/ Broadcast \/ Stop \/ MineRevert
           \/ \E i \in DOMAIN mempool : Evict(i)
           \/ PoolStep /\ UNCHANGED jobVars
           \/ UNCHANGED vars
  <2>1. /\ UNCHANGED <<watermark, manifests, narrowed, paid>>
        /\ PoolStep \/ UNCHANGED poolVars
    BY <1>5 DEF FinalizeBatch, Broadcast, Stop, MineRevert, Evict, jobVars, vars
  <2>2. \/ Broadcast \/ Stop \/ MineRevert
        \/ \E i \in DOMAIN mempool : Evict(i)
        \/ UNCHANGED <<run, mempool>>
    BY <1>5 DEF FinalizeBatch, jobVars, vars
  <2>3. \A P \in Plan : InFlight(P)' => InFlight(P)
    BY <1>1, <2>2, FlightShrinks
  <2>4. \A i \in EpochIds : Published(i)' <=> Published(i)
    BY <1>1, <2>1, PoolStepPublishesNothing
  <2>5. Facts(watermark)'
    BY <1>1, <2>1, <2>3, <2>4, QuietStep, ShrinkKeepsFacts
  <2>6. run'.at = "idle" \/ (run.at # "idle" /\ run'.plan = run.plan)
    BY <1>1, <2>2 DEF Broadcast, Stop, MineRevert, Evict, Idle, TypeInv, JobTypeOK
  <2>7. PlanIsManifest'
    BY <1>1, <2>1, <2>6 DEF PlanIsManifest
  <2> QED BY <1>1, <2>5, <2>7 DEF JobInv
<1> QED BY <1>2, <1>3, <1>4, <1>5 DEF Next, RunStep

(* Nothing is consumed, planned or published before the first run. *)
LEMMA JobInvInit ==
    ASSUME Init
    PROVE  JobInv
<1>1. TypeInv
  BY TypeInvInit
<1>2. \A P \in Plan : ~InFlight(P)
  BY DEF Init, InFlight, Idle
<1>3. \A i \in EpochIds : paid[i] = {} /\ ~Published(i)
  BY DEF Init, PoolInit, NoEpoch, Published
<1>4. Facts(watermark)
  BY <1>2, <1>3, PoolAssumption DEF Facts, AtMostOneAhead, ManifestsConsumed,
     AvoidsEarlier, InManifest, PaidIsKnown, Known, Attributed, Init
<1>5. PlanIsManifest
  BY DEF Init, PlanIsManifest, Idle
<1> QED BY <1>1, <1>4, <1>5 DEF JobInv

--------------------------------------------------------------------------------
(* Every state of the job and the pool is well typed, whatever the bounds:  *)
(* no reserve, balance or pot leaves the naturals (EpochRunner with         *)
(* OperatorRewardPool).                                                     *)
THEOREM JobTypeCorrect == Spec => []TypeOK
<1>1. TypeInv => TypeOK
  BY DEF TypeInv, PoolInv, JobTypeOK, TypeOK
<1>2. TypeInv /\ [Next]_vars => TypeInv'
  BY TypeInvStep
<1> QED BY TypeInvInit, <1>1, <1>2, PTL DEF Spec

(* No finalized batch is paid by two epochs, for any number of epochs and   *)
(* batches, any window each run scans, over any crash, lost answer,         *)
(* eviction and late transaction, unless the first was planned again over a *)
(* window that left out a batch of its earlier plan (run_epoch's watermark, *)
(* manifest and recovery).                                                  *)
THEOREM BatchesPaidOnce == Spec => []PaidOnce
<1>1. JobInv => PaidOnce
  <2> SUFFICES ASSUME JobInv, NEW i \in EpochIds, NEW j \in EpochIds, i < j,
                      NEW b \in paid[i] \cap paid[j]
               PROVE  i \in narrowed /\ b \notin manifests[i]
    BY DEF PaidOnce
  <2>1. b \in Batches /\ Attributed(i, b) /\ Attributed(j, b)
    BY DEF JobInv, TypeInv, JobTypeOK, Attributed
  <2> QED BY <2>1 DEF JobInv, Facts, AvoidsEarlier, InManifest
<1>2. JobInv /\ [Next]_vars => JobInv'
  BY JobInvStep
<1> QED BY JobInvInit, <1>1, <1>2, PTL DEF Spec

(* The chain is never two epochs ahead of the watermark, so the run's       *)
(* refusal of a second unknown epoch is dead code (run_epoch step 3).       *)
THEOREM NeverTwoAhead == Spec => []OneEpochAhead
<1>1. JobInv => OneEpochAhead
  BY DEF JobInv, Facts, AtMostOneAhead, OneEpochAhead, Known
<1>2. JobInv /\ [Next]_vars => JobInv'
  BY JobInvStep
<1> QED BY JobInvInit, <1>1, <1>2, PTL DEF Spec

(* Recovery always finds a manifest, and it names every batch the published *)
(* epoch paid, although runs overwrite manifests, unless one of them        *)
(* scanned a window without a batch of the plan before (_write_manifest and *)
(* _load_manifest_batches).                                                 *)
THEOREM ManifestsSuffice == Spec => []ManifestCovers
<1>1. JobInv => ManifestCovers
  <2> SUFFICES ASSUME JobInv, NEW id \in EpochIds, Published(id), id > watermark.last
               PROVE  /\ manifests[id] # {}
                      /\ id \in narrowed \/ paid[id] \subseteq manifests[id]
    BY DEF ManifestCovers
  <2>1. /\ watermark.last \in Nat
        /\ EpochIds \subseteq Nat
        /\ paid \in [EpochIds -> SUBSET Batches]
    BY PoolAssumption DEF JobInv, TypeInv, JobTypeOK, WatermarkFile
  <2>2. Known(id)
    BY DEF Known
  <2>3. manifests[id] # {}
    BY <2>1, <2>2 DEF JobInv, Facts, AtMostOneAhead
  <2>4. id \notin narrowed => \A b \in paid[id] : b \in manifests[id]
    BY <2>1 DEF JobInv, Facts, InManifest, Attributed
  <2> QED BY <2>3, <2>4
<1>2. JobInv /\ [Next]_vars => JobInv'
  BY JobInvStep
<1> QED BY JobInvInit, <1>1, <1>2, PTL DEF Spec

--------------------------------------------------------------------------------
(****************************************************************************)
(* What the reserve is made of                                              *)
(****************************************************************************)
(* What every epoch has not paid out, and the epochs that still may. *)
Owing == [id \in EpochIds |-> Remaining(id)]

(* The epochs that were published and not reclaimed. *)
OpenEpochs == {id \in EpochIds : Published(id) /\ ~epochs[id].reclaimed}

(* The reserve and the late claims are what the open epochs have not paid. *)
Reserved ==
    /\ IsFiniteSet(OpenEpochs)
    /\ totalReserved + lateClaimed = SumFunctionOnSet(Owing, OpenEpochs)

(* The invariant of the reserve. *)
ReserveInv == PoolInv /\ Reserved

(* The sum as the property writes it. *)
LEMMA ReserveSum ==
    ASSUME IsFiniteSet(OpenEpochs)
    PROVE  MapThenSumSet(Remaining, OpenEpochs) = SumFunctionOnSet(Owing, OpenEpochs)
<1> DEFINE S == OpenEpochs
           h == CHOOSE g : g = [s \in SUBSET S |->
                    IF s = {} THEN 0
                    ELSE Remaining(Pick(s)) + g[s \ {Pick(s)}]]
<1>1. MapThenSumSet(Remaining, S) = h[S]
  BY DEF MapThenSumSet, MapThenFoldSet, Pick
<1>2. S \subseteq EpochIds
  BY DEF OpenEpochs
<1> HIDE DEF S
<1>3. PICK k : IsSum(k, Owing, S)
  BY SumExists DEF S
<1>4. ASSUME NEW g
      PROVE  IsSum(g, Owing, S)
                <=> g = [s \in SUBSET S |->
                    IF s = {} THEN 0
                    ELSE Remaining(Pick(s)) + g[s \ {Pick(s)}]]
  <2>1. ASSUME NEW s \in SUBSET S, s # {}
        PROVE  Owing[Pick(s)] = Remaining(Pick(s))
    <3>1. Pick(s) \in EpochIds
      BY <1>2, <2>1, PickedFrom
    <3> QED BY <3>1 DEF Owing
  <2> QED BY <2>1 DEF IsSum
<1>5. IsSum(h, Owing, S)
  BY <1>3, <1>4
<1> HIDE DEF h
<1> QED BY <1>1, <1>5, SumIsTable DEF S

(* What an epoch has not paid out is an amount. *)
LEMMA OwingTyped ==
    ASSUME PoolInv
    PROVE  \A id \in EpochIds : Owing[id] = Remaining(id) /\ Owing[id] \in Nat
<1> SUFFICES ASSUME NEW id \in EpochIds
             PROVE  Owing[id] = Remaining(id) /\ Remaining(id) \in Nat
  OBVIOUS
<1>1. /\ epochs[id].claimedAmount \in 0 .. MaxFunds
      /\ epochs[id].totalAmount \in 0 .. MaxFunds
      /\ epochs[id].claimedAmount <= epochs[id].totalAmount
  BY DEF PoolInv, PoolTypeOK, Epoch, Amounts, ClaimedWithinTotal
<1> QED BY <1>1, PoolAssumption DEF Owing, Remaining

(* A publication opens an epoch that owes its total (publishEpoch). *)
LEMMA PublishReserves ==
    ASSUME ReserveInv, PoolInv', NEW p, NEW id \in EpochIds,
           NEW leaves \in [Accounts -> Amounts], NEW total \in Amounts,
           PublishEpoch(p, id, leaves, total)
    PROVE  Reserved'
<1> DEFINE S == OpenEpochs
           f == Owing
           g == Owing'
<1>1. /\ epochs \in [EpochIds -> Epoch] /\ now # 0 /\ total \in Nat
      /\ IsFiniteSet(S) /\ totalReserved + lateClaimed = SumFunctionOnSet(f, S)
      /\ totalReserved \in Nat /\ lateClaimed \in Nat
  BY PoolAssumption DEF ReserveInv, PoolInv, PoolTypeOK, Reserved, Amounts
<1> DEFINE e == [leaves |-> leaves, totalAmount |-> total, claimedAmount |-> 0,
                 publishedAt |-> now, reclaimed |-> FALSE]
<1>2. /\ epochs' = [epochs EXCEPT ![id] = e]
      /\ totalReserved' = totalReserved + total
      /\ lateClaimed' = lateClaimed
      /\ ~Published(id)
  BY DEF PublishEpoch, Publishable
<1>3. /\ e.totalAmount = total /\ e.claimedAmount = 0
      /\ e.publishedAt = now /\ e.reclaimed = FALSE
  OBVIOUS
<1> HIDE DEF e
<1>4. epochs'[id] = e /\ \A i \in EpochIds \ {id} : epochs'[i] = epochs[i]
  BY <1>1, <1>2
<1>5. OpenEpochs' = S \cup {id} /\ id \notin S /\ S \subseteq EpochIds
  BY <1>1, <1>2, <1>3, <1>4 DEF OpenEpochs, Published
<1>6. /\ \A i \in EpochIds : f[i] \in Int /\ g[i] \in Int
      /\ g[id] = total
      /\ \A i \in S : g[i] = f[i]
  <2>1. \A i \in EpochIds : f[i] \in Int /\ g[i] \in Int
    <3>1. \A i \in EpochIds : f[i] \in Int
      BY OwingTyped DEF ReserveInv
    <3>2. epochs' \in [EpochIds -> Epoch]
      BY DEF PoolInv, PoolTypeOK
    <3>3. \A i \in EpochIds : /\ epochs'[i].totalAmount \in Int
                              /\ epochs'[i].claimedAmount \in Int
      BY <3>2, PoolAssumption DEF Epoch, Amounts
    <3> QED BY <3>1, <3>3 DEF Owing, Remaining
  <2>2. g[id] = total
    BY <1>1, <1>3, <1>4 DEF Owing, Remaining
  <2>3. \A i \in S : g[i] = f[i]
    BY <1>4, <1>5 DEF Owing, Remaining
  <2> QED BY <2>1, <2>2, <2>3
<1> HIDE DEF S, f, g
<1>7. SumFunctionOnSet(g, S \cup {id}) = SumFunctionOnSet(g, S) + g[id]
  BY <1>1, <1>5, <1>6, SumAdd
<1>8. SumFunctionOnSet(g, S) = SumFunctionOnSet(f, S)
  BY <1>1, <1>6, SumSame
<1>9. IsFiniteSet(S \cup {id})
  BY <1>1, FS_AddElement
<1>10. totalReserved' + lateClaimed' = SumFunctionOnSet(g, S \cup {id})
  BY <1>1, <1>2, <1>6, <1>7, <1>8
<1> QED BY <1>5, <1>9, <1>10 DEF Reserved, g

(* A claim on an open epoch lowers what that epoch owes; one on a reclaimed *)
(* epoch takes from the reserve what no open epoch paid (claim).            *)
LEMMA ClaimReserves ==
    ASSUME ReserveInv, PoolInv',
           NEW id \in EpochIds, NEW a \in Accounts, Claim(id, a)
    PROVE  Reserved'
<1> DEFINE S == OpenEpochs
           f == Owing
           g == Owing'
           amount == epochs[id].leaves[a]
           e == [epochs[id] EXCEPT !.claimedAmount = @ + amount]
<1>1. /\ epochs \in [EpochIds -> Epoch] /\ epochs[id] \in Epoch
      /\ IsFiniteSet(S) /\ totalReserved + lateClaimed = SumFunctionOnSet(f, S)
      /\ amount \in Nat /\ totalReserved \in Nat /\ lateClaimed \in Nat
  BY PoolAssumption DEF ReserveInv, PoolInv, PoolTypeOK, Reserved, Epoch, Amounts
<1>2. /\ epochs' = [epochs EXCEPT ![id] = e]
      /\ totalReserved' = totalReserved - amount
      /\ lateClaimed' = IF epochs[id].reclaimed THEN lateClaimed + amount ELSE lateClaimed
      /\ Published(id) /\ epochs[id].reclaimed \in BOOLEAN
  BY <1>1 DEF Claim, Owed, Epoch
<1>3. /\ e.totalAmount = epochs[id].totalAmount
      /\ e.claimedAmount = epochs[id].claimedAmount + amount
      /\ e.publishedAt = epochs[id].publishedAt
      /\ e.reclaimed = epochs[id].reclaimed
  BY <1>1 DEF Epoch
<1> HIDE DEF e, amount
<1>4. epochs'[id] = e /\ \A i \in EpochIds \ {id} : epochs'[i] = epochs[i]
  BY <1>1, <1>2
<1>5. /\ OpenEpochs' = S /\ S \subseteq EpochIds
      /\ epochs[id].reclaimed = FALSE <=> id \in S
  BY <1>1, <1>2, <1>3, <1>4 DEF OpenEpochs, Published
<1>6. /\ \A i \in S : f[i] \in Int /\ g[i] \in Int
      /\ \A i \in S \ {id} : g[i] = f[i]
      /\ g[id] = f[id] - amount
  <2>1. \A i \in EpochIds : f[i] \in Int /\ g[i] \in Int
    <3>1. \A i \in EpochIds : f[i] \in Int
      BY OwingTyped DEF ReserveInv
    <3>2. epochs' \in [EpochIds -> Epoch]
      BY DEF PoolInv, PoolTypeOK
    <3>3. \A i \in EpochIds : /\ epochs'[i].totalAmount \in Int
                              /\ epochs'[i].claimedAmount \in Int
      BY <3>2, PoolAssumption DEF Epoch, Amounts
    <3> QED BY <3>1, <3>3 DEF Owing, Remaining
  <2>2. g[id] = f[id] - amount
    <3>1. epochs[id].totalAmount \in Int /\ epochs[id].claimedAmount \in Int
      BY <1>1, PoolAssumption DEF Epoch, Amounts
    <3> QED BY <1>1, <1>3, <1>4, <3>1 DEF Owing, Remaining
  <2>3. \A i \in S \ {id} : g[i] = f[i]
    BY <1>4, <1>5 DEF Owing, Remaining
  <2> QED BY <1>5, <2>1, <2>2, <2>3
<1> HIDE DEF S, f, g
<1>7. SumFunctionOnSet(f, S) \in Int
  BY <1>1, <1>6, SumInt
<1>8. ASSUME id \in S
      PROVE  totalReserved' + lateClaimed' = SumFunctionOnSet(g, S)
  <2>1. SumFunctionOnSet(g, S) = SumFunctionOnSet(f, S) - f[id] + g[id]
    BY <1>1, <1>6, <1>8, SumChange
  <2> QED BY <1>1, <1>2, <1>5, <1>6, <1>7, <1>8, <2>1
<1>9. ASSUME id \notin S
      PROVE  totalReserved' + lateClaimed' = SumFunctionOnSet(g, S)
  <2>1. \A i \in S : g[i] = f[i] /\ f[i] \in Int
    BY <1>6, <1>9
  <2>2. SumFunctionOnSet(g, S) = SumFunctionOnSet(f, S)
    BY <1>1, <2>1, SumSame
  <2>3. totalReserved' = totalReserved - amount /\ lateClaimed' = lateClaimed + amount
    BY <1>2, <1>5, <1>9
  <2> QED BY <1>1, <1>7, <2>2, <2>3
<1>10. totalReserved' + lateClaimed' = SumFunctionOnSet(g, S)
  BY <1>8, <1>9
<1> QED BY <1>1, <1>5, <1>10 DEF Reserved, g

(* A reclaim closes an epoch and releases what it owed (reclaimUnclaimed). *)
LEMMA ReclaimReserves ==
    ASSUME ReserveInv, PoolInv', NEW id \in EpochIds, ReclaimUnclaimed(id)
    PROVE  Reserved'
<1> DEFINE S == OpenEpochs
           f == Owing
           g == Owing'
           e == [epochs[id] EXCEPT !.reclaimed = TRUE]
<1>1. /\ epochs \in [EpochIds -> Epoch] /\ epochs[id] \in Epoch
      /\ IsFiniteSet(S) /\ totalReserved + lateClaimed = SumFunctionOnSet(f, S)
      /\ totalReserved \in Nat /\ lateClaimed \in Nat
  BY DEF ReserveInv, PoolInv, PoolTypeOK, Reserved
<1>2. /\ epochs' = [epochs EXCEPT ![id] = e]
      /\ totalReserved' = totalReserved - Remaining(id)
      /\ lateClaimed' = lateClaimed
      /\ Published(id) /\ epochs[id].reclaimed = FALSE
  BY <1>1 DEF ReclaimUnclaimed, Epoch
<1>3. /\ e.totalAmount = epochs[id].totalAmount
      /\ e.claimedAmount = epochs[id].claimedAmount
      /\ e.publishedAt = epochs[id].publishedAt
      /\ e.reclaimed = TRUE
  BY <1>1 DEF Epoch
<1> HIDE DEF e
<1>4. epochs'[id] = e /\ \A i \in EpochIds \ {id} : epochs'[i] = epochs[i]
  BY <1>1, <1>2
<1>5. OpenEpochs' = S \ {id} /\ id \in S /\ S \subseteq EpochIds
  BY <1>1, <1>2, <1>3, <1>4 DEF OpenEpochs, Published
<1>6. /\ \A i \in S : f[i] \in Int
      /\ \A i \in S \ {id} : g[i] = f[i]
      /\ f[id] = Remaining(id)
  BY <1>4, <1>5, OwingTyped DEF ReserveInv, Owing, Remaining
<1> HIDE DEF S, f, g
<1>7. SumFunctionOnSet(f, S) = f[id] + SumFunctionOnSet(f, S \ {id})
  BY <1>1, <1>5, <1>6, SumSplit
<1> DEFINE V == S \ {id}
<1>8. IsFiniteSet(V) /\ V \subseteq S
  BY <1>1, FS_Subset
<1>9. \A i \in V : g[i] = f[i] /\ f[i] \in Int
  BY <1>6
<1>10. f[id] \in Int
  BY <1>5, <1>6
<1> HIDE DEF V
<1>11. SumFunctionOnSet(g, V) = SumFunctionOnSet(f, V) /\ SumFunctionOnSet(f, V) \in Int
  BY <1>8, <1>9, SumSame, SumInt
<1>12. totalReserved' + lateClaimed' = SumFunctionOnSet(g, V)
  BY <1>1, <1>2, <1>6, <1>7, <1>10, <1>11 DEF V
<1> QED BY <1>5, <1>8, <1>12 DEF Reserved, g, V

(* The other steps touch neither the epochs nor the reserve. *)
LEMMA QuietReserves ==
    ASSUME Reserved, UNCHANGED <<epochs, totalReserved, lateClaimed>>
    PROVE  Reserved'
  BY DEF Reserved, OpenEpochs, Owing, Published, Remaining

(* Everything the pool does besides publishing keeps the reserve. *)
LEMMA PoolStepReserves ==
    ASSUME ReserveInv, PoolInv', PoolStep
    PROVE  Reserved'
<1>1. CASE \E id \in EpochIds, a \in Accounts : Claim(id, a)
  BY <1>1, ClaimReserves
<1>2. CASE \E id \in EpochIds : ReclaimUnclaimed(id)
  BY <1>2, ReclaimReserves
<1>3. CASE UNCHANGED <<epochs, totalReserved, lateClaimed>>
  BY <1>3, QuietReserves DEF ReserveInv
<1> QED
  BY <1>1, <1>2, <1>3 DEF PoolStep, SetRootPublisher, SetPaused, SweepSurplus, Fund,
     AdvanceTime

(* Nothing is reserved at first. *)
LEMMA ReserveInit ==
    ASSUME PoolInit
    PROVE  ReserveInv
<1>1. OpenEpochs = {}
  BY DEF PoolInit, NoEpoch, OpenEpochs, Published
<1>2. SumFunctionOnSet(Owing, OpenEpochs) = 0 /\ IsFiniteSet(OpenEpochs)
  BY <1>1, SumEmpty, FS_EmptySet
<1>3. Reserved
  BY <1>2 DEF PoolInit, Reserved
<1> QED BY <1>3, PoolInvInit DEF ReserveInv

(* The reserve falls short of what the open epochs owe by exactly what was  *)
(* claimed from reclaimed ones, for the job and for everybody who calls the *)
(* pool (totalReserved in publishEpoch, claim and reclaimUnclaimed).        *)
THEOREM ReserveMatches == Spec => []ReserveIsOwed
<1> DEFINE Inv == TypeInv /\ Reserved
<1>1. ASSUME Inv, [Next]_vars PROVE Inv'
  <2>1. TypeInv'
    BY <1>1, TypeInvStep
  <2>2. ReserveInv /\ PoolInv'
    BY <1>1, <2>1 DEF TypeInv, ReserveInv
  <2>3. CASE MinePublish
    <3>1. Mined \in Plan /\ Mined.id \in EpochIds
      BY <1>1, <2>3, MinedIsPlan DEF MinePublish
    <3>2. Mined.leaves \in [Accounts -> Amounts] /\ Mined.pot \in Amounts
      BY <3>1 DEF Plan
    <3> QED BY <2>1, <2>2, <2>3, <3>1, <3>2, PublishReserves DEF MinePublish
  <2>4. CASE PoolStep
    BY <2>1, <2>2, <2>4, PoolStepReserves
  <2>5. CASE UNCHANGED poolVars
    BY <1>1, <2>1, <2>5, QuietReserves DEF poolVars
  <2> QED
    BY <1>1, <2>3, <2>4, <2>5 DEF Next, RunStep, FinalizeBatch, BeginRun, Broadcast,
       PersistWatermark, Stop, MineRevert, Evict, vars
<1>2. Init => Inv
  BY TypeInvInit, ReserveInit DEF Init, ReserveInv
<1>3. Inv => ReserveIsOwed
  BY ReserveSum DEF Reserved, ReserveIsOwed, OpenEpochs
<1> QED BY <1>1, <1>2, <1>3, PTL DEF Spec

(* "An earner's claim can never fail for lack of funds" (the contract's     *)
(* header) holds of the pool with any publisher until somebody claims from  *)
(* a reclaimed epoch: each open epoch's debt is part of the reserve         *)
(* (claim, which does not look at reclaimed).                               *)
THEOREM ClaimsAreFunded == PoolSpec => [](lateClaimed = 0 => ClaimsFunded)
<1>1. ASSUME ReserveInv, [PoolNext]_poolVars PROVE ReserveInv'
  <2>1. PoolInv'
    BY <1>1, PublishKeepsPool, PoolStepKeepsPool, PoolStutter DEF PoolNext, ReserveInv
  <2>2. CASE PoolStep
    BY <1>1, <2>1, <2>2, PoolStepReserves DEF ReserveInv
  <2>3. CASE UNCHANGED poolVars
    BY <1>1, <2>1, <2>3, QuietReserves DEF poolVars, ReserveInv
  <2>4. ASSUME NEW p \in Publishers, NEW id \in EpochIds,
               NEW leaves \in [Accounts -> Amounts], NEW total \in Amounts,
               PublishEpoch(p, id, leaves, total)
        PROVE  ReserveInv'
    BY <1>1, <2>1, <2>4, PublishReserves DEF ReserveInv
  <2> QED BY <1>1, <2>2, <2>3, <2>4 DEF PoolNext
<1>2. ASSUME ReserveInv, lateClaimed = 0 PROVE ClaimsFunded
  <2> SUFFICES ASSUME NEW id \in EpochIds, NEW a \in Accounts, Owed(id, a),
                      ~epochs[id].reclaimed
               PROVE  epochs[id].leaves[a] <= totalReserved
    BY DEF ClaimsFunded
  <2>1. id \in OpenEpochs /\ epochs[id].leaves[a] <= Remaining(id)
    BY DEF Owed, OpenEpochs
  <2>2. /\ \A i \in OpenEpochs : Owing[i] \in Nat
        /\ Owing[id] = Remaining(id)
        /\ IsFiniteSet(OpenEpochs)
        /\ totalReserved = SumFunctionOnSet(Owing, OpenEpochs)
    BY <1>2, OwingTyped DEF ReserveInv, Reserved, OpenEpochs, PoolInv, PoolTypeOK
  <2>3. Owing[id] <= SumFunctionOnSet(Owing, OpenEpochs)
    BY <2>1, <2>2, SumBounds
  <2>4. epochs[id].leaves[a] \in Nat /\ totalReserved \in Nat /\ Remaining(id) \in Nat
    BY <1>2, <2>1, <2>2, PoolAssumption DEF ReserveInv, PoolInv, PoolTypeOK, Epoch,
       Amounts
  <2> QED BY <2>1, <2>2, <2>3, <2>4
<1> QED BY ReserveInit, <1>1, <1>2, PTL DEF PoolSpec
================================================================================
