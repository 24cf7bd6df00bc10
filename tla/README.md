# TLA+ models of PRSM's money paths

PRSM is a peer-to-peer network that sells computation and content for a token,
FTNS. This directory models the parts of it where money moves and where an
interleaving, a crash or a failed call can move it wrongly: the contracts that
settle batches of work receipts on chain and the node's client that drives them, the
reward pool and the job that fills it, the bridge between the off-chain ledger and
the chain in both directions, and the off-chain escrow of a job's payment. The models
are checked by TLC on small instances, and every safety property of the passing runs
is proved by TLAPS for every value of the constants.

## 1. Inventory

Paths are relative to the repository root. "Hard" says what a test hardly reaches.

| Part | State | Operations | Interacts with | Hard |
|---|---|---|---|---|
| `BatchSettlementRegistry.sol` | batches, invalidated leaves, per-provider expiry tracker, window and wiring parameters, pause ledger | commit, challenge (5 reasons), finalize, setters, pause | slashes in StakeBond (try/catch), pays from EscrowPool, read by StakeBond | pauses and window changes against open windows; several challenges of one leaf |
| `StakeBond.sol` | stakes, bounties, reserve, wiring, pause | bond, requestUnbond, withdraw, slash, claimBounty, drain, setters, pause | reads the registry's tracker live | unbonding against batches still challengeable; rounding |
| `EscrowPool.sol` | balances, total, token | deposit, withdraw, settleFromRequester, setFtnsToken, pause | called by finalizeBatch | token rotation against balances |
| `prsm/settlement/client.py`, `accumulator.py`, `state_store.py` | accumulator, commit intents (write-ahead log), quarantined transactions, tracked batches, finalized ids, committed-id ledger, state file | accumulate, commit_ready_batches, recover, reconcile (2), finalize, restart | the registry through RPC, upstream deliveries | crash between broadcast and save, lost answers, late transactions, re-delivery, failing saves |
| `batch_settlement_contract_client.py` | none | sign, send, wait; look up by transaction and by root | chain | three kinds of failure with different retries |
| `client_wiring.py`, poll loop in `prsm/node/node.py` | none | the five phases of a cycle | client | liveness of every phase |
| `StorageSlashing.sol` | heartbeats, grace periods, slashed proofs | heartbeat, submit proof, slash | StakeBond.slash | deadlines |
| `EmissionController.sol`, `CompensationDistributor.sol` | minted total, epoch, weights | mint, pull and distribute, schedule weights | FTNS token | halving boundaries, caps, rounding |
| `OperatorRewardPool.sol` | epochs, claims, reserve | publish, claim, sweep, reclaim, publisher, pause | published to by the epoch job | publications, sweeps, reclaims and late claims on one balance |
| `epoch_runner.py`, `epoch_watermark.py`, `emission_epoch.py` | watermark file, manifests | run an epoch, recover one | reward pool, the registry's finalized batches | crash between broadcast and save; transactions mined late; the division of a pot into whole units |
| `FTNSBridge.sol`, `BridgeSecurity.sol` | nonces, limits, validators | bridge in and out, verify | other chain | replays, thresholds |
| `RoyaltyDistributor`, `CreatorStakeRegistry`, `KeyDistribution`, `ProvenanceRegistry(V2)`, `PublisherKeyAnchor`, `ContentAccessVerifier` | one registry each | single guarded writes | each other's views | little |
| per-stage settlement (`per_stage_*.py`) | staged tasks | stage, drain, discard | settlement client | discard against uncertain commits |
| `payment_escrow.py` | records in memory, a wallet per escrow in the ledger, a lock per job | create, release, split release, refund, sweep; orphan recovery in `api.py` | local or DAG ledger, compute requester and provider | concurrent release, refund and sweep; legs that fail half way; restarts |
| withdraw endpoint in `api.py`, `OnChainFTNSLedger.transfer`, `pending_withdraw_reconciler.py` | off-chain balance, withdraw nonces, pending intents and their file | withdraw, transfer, reconcile, refund | local ledger, chain | refund of a transaction that lands later; replayed signatures |
| `InboundMonitor` in `ftns_onchain.py` | checkpoint, credited deposits | tick: scan, credit, checkpoint | local ledger, chain | reorganisations, double credits, skipped blocks |
| `local_ledger.py` | balances, transactions | credit, debit, transfer | all of the above | checks and writes across awaits |
| `multi_party_escrow.py`, `ledger_sync.py`, `dag_ledger.py` | transactions, nonces | gossip, apply | gossip | reordering, duplicates |
| payment authorization, `delegation_budget.py` | budgets | reserve, release | escrow | concurrent reservations |
| audit engine, challenge watcher, detectors, gossip | published batches | detect, assemble, broadcast challenges | registry | they only propose challenges anybody may make |
| compute requester and provider, `result_consensus.py`, marketplace | jobs, votes | offer, accept, result, vote, timeout | escrow | late results, retries |
| chain RPC, streaming inference | caches, streams | stage calls, failover | compute | cache lifetime |
| gossip, discovery, transport, DHT, storage | peers, shards | best effort | all | not relied on by settlement |
| governance, off-chain tokenomics, API, CLI, SDKs | proposals, database rows | vote, execute | all | not on the money path modelled here |

What makes the modelled parts correct:

* a batch is finalized only after challengers had its whole window, pauses excluded;
* a stake does not leave while its owner's batches can still be challenged;
* a challenged receipt is subtracted once, and a conflict leaves one copy standing;
* each contract holds exactly what it owes;
* a receipt is on chain in at most one batch, and no batch on chain is forgotten;
* a batch that landed is eventually finalized and known to be;
* no receipt the node accepted is dropped;
* a finalized batch is paid by one epoch, the pool covers what it promised, and a
  pot is divided exactly and in proportion;
* no setting of the owner changes how, from where and by whom a committed batch is
  judged, paid and slashed;
* a withdrawal is paid or refunded, never both; a deposit is credited once, only if
  it stays on the chain, and none is passed over;
* every unit of an escrow is where its record says, an escrow is settled once, and
  not forgotten when it times out.

Not all of this is true of the code without exception. Where it is not, the model has
the exceptional case, the property names it, and section 3 describes it. The hazards
behind these are listed, with their lines, in `PROJECT.json`.

## 2. Modules

| Module | Models | State and actions |
|---|---|---|
| `BatchSettlementRegistry` | the registry | its storage as variables of the same names; one action per call (`CommitBatch`, `FinalizeBatch`, `InvalidateReceipt` = `challengeReceipt` up to the slash, the setters, `PauseRegistry`, `UnpauseRegistry`); one predicate per reason handler; `Tick` is block time |
| `StakeBond` | the bond contract | one action per call; extends the registry's module because `_pendingExpiryFloor` and `requestUnbond` read the registry live |
| `EscrowPool` | the escrow | one action per call; `poolHoldings` is the token balance of the pool's address |
| `Settlement` | the three deployed together | `Finalize` = `FinalizeBatch` with the settlement, `Challenge` = `InvalidateReceipt` with the slash or its swallowed failure; one transaction is one step; the specifications and all properties |
| `SettlementProofs` | | theorems about `Settlement` |
| `MCSettlement` | | instances for TLC |
| `ReceiptSettlement` | what the client promises | `Settle`, `Pay`: each receipt at most once. Both variables count batches per receipt (the client's landed and finalized transactions that contain it), so a second batch with the same receipts is no stutter |
| `BatchSettlementClient` | `client.py` with the accumulator and the state file | the client's dictionaries, `disk` as last saved, the commit in progress, the transactions broadcast |
| `MCBatchSettlementClient` | | instances for TLC |
| `OperatorRewardPool` | the reward pool | its storage under the same names; one action per call; `funded` bounds what is paid in |
| `EpochRunner` | the epoch job, composed with the pool | extends the pool; the watermark file, the manifests, the running job (`BeginRun`, `RunStep` = broadcast, then save), its key's mempool; `Stop` kills it anywhere |
| `ProRataAllocation` | `allocate_pro_rata` | `Turn` is one turn of its loop; every pot and every distribution of work is an initial state |
| `Withdrawals` | withdraw endpoint, transfer, store, reconciler | a phase per request, its transfer's fate, the store in memory and on disk, one reconciler with an action between any two of its awaits |
| `InboundMonitor` | the deposit monitor | the chain (`NewBlock`, `Reorg`), the tick in its steps, checkpoint and marks on disk |
| `PaymentEscrow` | `payment_escrow.py` | the records, the wallets, one call per coroutine with an action between any two ledger calls, the sweep, `Restart` |
| `MCEpochRunner`, `MCWithdrawals`, `MCPaymentEscrow` | | instances for TLC |
| `BatchSettlementClientProofs`, `EpochRunnerProofs`, `ProRataProofs`, `WithdrawalsProofs`, `InboundMonitorProofs`, `PaymentEscrowProofs` | | theorems |
| `SumTheorems` | | lemmas on sums over finite sets, for the proofs about money |

Definitions named `...Latest`, `...OneShot`, `...Again` and the like, marked
"Defect" in their comment, are deliberate mistakes. They are not used by any
specification; each shows that the property it is paired with would notice it.

### Contracts: what is abstracted

A Merkle root is the set of leaves under it, so a proof verifies exactly for its
members; a signature is a flag on the leaf; a batch id is the provider and its
sequence number. Stored fields that decide nothing (receipt count, metadata,
attestation commitment) are left out. The declared total of a batch is independent
of its leaves, as in the contract, which never sees them. Owner calls are actions
like any other, including on a paused contract where the code allows it. The wired
contracts have two values, none and the deployed one; `PayingPool` and `SlashedBond`
are the ones a batch is paid from and slashed in. The challenger that a slasher names
may be the zero address. `openSeconds`, `paid` and `challengeLog` are observers: no
guard reads them.

### Client: what is abstracted

A receipt is its `local_escrow_id` (receipts without one do not occur on the paths
that settle). The client's lock makes each method atomic, so only the commit, which
awaits the chain while it holds the lock, has several steps: `BeginCommit` (intent,
ledger and save), `Send`, and one action per outcome. The chain, third parties and
`Restart` come between any two. Every save may fail (`PersistOutcomes`), which
leaves the memory ahead of the file as in the code. The thresholds that make a batch
ready are a free choice, and so is the moment a batch becomes finalizable. The
committed-id ledger is unbounded here: the code forgets the oldest of 200 000 ids.

### Reward epochs: what is abstracted

A Merkle root is the function of the amounts under it, so a claim's proof verifies
for exactly its account's amount. In `EpochRunner` the shares of a pot are any
division of it among the batches' providers; `ProRataAllocation` looks at the
division itself. A run sees whatever finalized batches its caller scanned (`Fresh`:
`--from-block`, `--confirmations` and the time bounds leave out what they like), so two
runs may plan one epoch over different batches. Runs follow each other and do not
overlap. `publish_epoch` returns the hash of a transaction that was only
sent: whether it is mined, reverts or is evicted is a step of the chain, and the one
key's transactions are mined in nonce order. Only the job publishes epochs: a second
publisher of the model takes the role away from the job and publishes nothing.
`narrowed` (epochs planned again without some batch of the plan before) and
`lateClaimed` (what was claimed from reclaimed epochs) are observers.

### Bridge: what is abstracted

Every withdrawal is of one unit. Two requests may carry the same signature. The
escrow key is shared: foreign transactions take nonces. A transaction that was
evicted may come back while its nonce is free. `NullReceipts` says how the RPC
library answers for a transaction without a receipt: None, which the reconciler is
written for, or an exception, which web3 raises (`withdraw_dropped`). Each read of the
reconciler may fail, also the last one, whose exceptions the code takes for an absent
receipt; `blind` observes the requests where it was wrong to. A deposit is one log
entry, and its idempotency key one entry of `keys`; a block `MaxReorg` below the highest tip is final, and the monitor's
confirmations are at least that. Webhooks, chunked scans and pruning are left out.

### Payment escrow: what is abstracted

All escrows lock the same amount, and amounts are integers: the float tolerance and
the clamp of `release_escrow_split` are left out, but a transfer may fail for no
visible reason, which is what a rounded float looks like. `release_escrow` is a plan
of one leg. A transfer raises a `ValueError` (LocalLedger's refusals) or something
else (DAGLedger's, database errors), which the code treats differently. Recipients do
with their wallets what they like, so these are not tracked, and taking a leg back may
always fail. `recover_orphan_escrows` looks for a balance and at nothing else: the model
takes any escrow wallet at any time, with an amount that may have been read earlier.
The sweep does not yield between two awaits, so it goes from one refund to the next in
one step (`Reap`). `paid`, `returned` and `recovered` observe where an escrow's units
went, `leaked` which of them are legs of failed releases, and `stranded` the remainders
that could not be moved.

The ledger calls are mapped to `local_ledger.py`. The node's default is `DAGLedger`,
which agrees with it in what the models use of transfers and credits, except for the
exceptions it raises.

## 3. Runs

| Run | Instance | Shows |
|---|---|---|
| `settlement_time` | 1 provider, 2 batches, windows of 1 and 2 s, 4 s; pauses, shortened and extended windows, bond, unbond, withdraw, bond again, under `SpecBundled` | `TypeOK`, `PauseLedgerExact`, `FloorCoversPending`, `FinalizeOnlyAfterOpenWindow`, `WithdrawOnlyAfterExpiry` |
| `challenges` | 2 interchangeable providers, a good and a forged leaf, shared leaves, all reasons, payment; 2 windows, 2 lookbacks, and pool, bond and verifier wired or not | `PaidNetOfChallenges`, `DoubleSpendSparesOriginal`, `OwnerRejudgesNothing` |
| `money` | 1 provider, 1 requester, 1 challenger, two tiers, three slash rates, storage slasher, reserve, two tokens, pauses | `BondSolvent`, `EscrowBacked`, `TierIsExposed` |
| `client` | 2 receipts under one key, 3 transactions, 2 restarts, saves that fail, fairness | `TypeOK`, `NothingStranded`, `SettlesOnce` (the client implements `ReceiptSettlement`), `LandedIsFinalized` |
| `epoch_job` | 3 epochs, 2 batches of 1 provider scanned in any windows, 3 transactions, 2 units, 2 publishers, late claims, fairness | `TypeOK`, `PaidOnce`, `OneEpochAhead`, `ManifestCovers`, `Solvent`, `ReserveIsOwed`, `LaterEpochsRecovered` |
| `pro_rata` | 4 providers, weights up to 4, pots up to 6 | `SpendsThePot`, `WithinOneUnit`, `MoreWorkNoLess`, `WholeUnitsKept`, `Terminates` |
| `withdrawals` | 2 requests of 1 wallet, 2 units, 3 escrow nonces, 1 crash, saves, credits and reads that fail, fairness | `TypeOK`, `NoDoublePay`, `NothingMinted`, `SignatureUsedOnce`, `RevertedIsRefunded` |
| `inbound` | 2 deposits, 1 of a linked sender, depth 2, reorganisations up to 2, catch-up window of 2, 6 blocks, lookups and marks that fail, 1 crash, fairness | `CreditedOnce`, `CreditIsBacked`, `NoneSkipped`, `DeepDepositCredited` |
| `payment_escrow` | 2 jobs, 2 callers and the sweep, 2 escrows, a plan of two legs and one with a remainder, both kinds of exception, recovery of any wallet, 1 crash, fairness | `EscrowAccounted`, `OneLiveEscrow`, `FinalizedOnce`, `ExpiredSettles` |

`TypeOK` of `ProRataAllocation`, `InboundMonitor` and `PaymentEscrow` documents the
variables and is not part of a run. `ReserveIsOwed` implies
`ClaimsFunded` as long as no epoch is claimed late (proved, section 4), and only
`late_claim` asks TLC for the latter.

Some properties of the passing runs name a case that the code does not cover, and hold
in every other: `FloorCoversPending` and `WithdrawOnlyAfterExpiry` (`Undercut`),
`PaidOnce` and `ManifestCovers` (`narrowed`), `NoDoublePay` with `NothingMinted`
(`blind`), `ReserveIsOwed` (`lateClaimed`), `EscrowAccounted` (`leaked`, `recovered`,
`stranded`). The cases themselves are reachable in the runs and are described next.

Three runs expect a violation, of something the repository says about itself:

* `client_drop` violates `NoReceiptDropped`. An intent whose broadcast failed keeps
  its accumulator key; receipts accumulated under that key afterwards are skipped by
  `_restore_pending` at the next restart, and popped when the intent is adopted.
* `late_claim` violates `ClaimsFunded`. `claim` does not ask whether the epoch was
  reclaimed, so a late claim is charged to what other epochs reserved.
* `withdraw_dropped` violates `DroppedIsRefunded`. The reconciler expects None for an
  absent receipt and web3 raises, so its dropped branch is never reached.

### Divergences without a run

Met while modelling, each a behaviour of the models above, reported here only:

* **A shortened window after a pause.** The registry keeps one pair (expiry, pause
  total) per provider and replaces it when a new wall-clock expiry is larger. Alone, a
  shortened window does no harm: the comparison keeps the longer expiry. With a pause
  it does. Commit at 0 under a window of 2, pause both contracts from 0 to 2, shorten
  the window to 1, commit at 2: the new wall-clock expiry 3 displaces 2, and the floor
  is 3 where the first batch, owed two seconds of pause, is open until 4. A stake can
  leave in between, although `_pendingExpiryFloor` is documented as "the pause-adjusted
  MAXIMUM challenge expiry across `provider`'s currently-PENDING batches"
  (`StakeBond.sol:404`). `Undercut` is this case. TLC finds it in `settlement_time` when
  the conjunct is taken out.
* **A lone pause.** While only the registry is paused, the running pause is not in
  `totalPausedSeconds`, so `withdraw` sees the wall-clock expiry, and after the
  unpause the batch is open with nothing left to slash. Hence the rule of `SpecBundled`.
* **Consensus by one.** `_handleConsensusMismatch` needs one conflicting receipt of
  another provider; its comment speaks of a majority
  (`BatchSettlementRegistry.sol:960`).
* **The first epoch.** A job that dies between broadcasting epoch 1 and saving its
  watermark is refused for ever (`WatermarkLostError`), although the module says that
  a crash after publish is recovered; `LaterEpochsRecovered` starts with epoch 2.
* **A watermark too early.** `run_epoch` saves the watermark after the broadcast, not
  after the transaction is mined. If it then reverts or is evicted, its batches are
  consumed and never paid, against "only after it lands" in `epoch_watermark.py`.
* **An epoch planned again over another window.** `emission_epoch.py` promises to "make
  the double-count unrepresentable rather than relying on the caller to window
  correctly" (lines 18-19) and calls the consumed ids "the exactly-once guarantee" (line
  133). A run over {b1} broadcasts epoch n and is killed; before that is mined, a run
  with a later `--from-block` plans n over {b2} and overwrites the manifest; the first
  transaction is mined. If the second run saved the watermark, b2 counts as paid and b1
  is paid again by n+1; if it was killed too, n is adopted from {b2} with the same
  result. `narrowed` is this case; `PaidOnce` says that a batch paid twice is one the
  manifest lost.
* **A re-poll that raises.** `_is_dropped` is "double-pay-safe: a tx can only be refunded
  once it is IMPOSSIBLE for it to still land" (`pending_withdraw_reconciler.py:356`), and
  re-polls the receipt last for a transaction mined meanwhile. Any exception of that
  re-poll counts as an absent receipt (lines 388-391): a connection error there refunds
  a withdrawal that was just paid (`blind`). So does an answer of None from a replica
  that lags behind. With web3, which raises for an absent receipt, the re-poll is not
  reached (`withdraw_dropped`), and nothing is paid twice (`NeverPaidTwiceOverWeb3`);
  whoever repairs the first read uncovers the second.
* **A deposit below a lost baseline.** The first tick takes the current block as the
  baseline. If its save fails and the daemon restarts, a later block becomes the
  baseline, and deposits in between are never scanned: `DeepDepositCredited` speaks of
  deposits above the baseline the monitor has.
* **A withdrawal that was never signed.** A connection error of the nonce read is
  handled like a lost answer to the send: the intent has neither hash nor nonce, and
  no tick resolves it.
* **Orphan recovery.** `recover_orphan_escrows` is documented for wallets "whose
  corresponding `_escrows` in-memory record has been lost" (`api.py:14310-14312`), but
  takes every `escrow-*` wallet with a balance, those of live records too, also under a
  release that has paid some of its legs; only the operator's review of a dry run, whose
  output does not tell the two apart, stands in between. A live escrow that was
  recovered cannot be released any more and is REFUNDED at its timeout.
* **A split that is not taken back.** "any per-recipient transfer failure triggers
  compensating reverse-transfers for the legs that already succeeded, restoring the
  escrow wallet to its pre-call state" (`payment_escrow.py:569`), but only a
  `ValueError` does: the DAG ledger's own exceptions leave the paid legs as they are,
  and so does a restart half way. The escrow is PENDING with less than its amount, and
  a later release of the same plan is refused for want of funds (`leaked`).
* **The sweep.** It refunds by job id, so a record it found expired can cost a newer
  escrow of the same job its time; and a record whose refund raises something other
  than a `ValueError` at every sweep keeps all younger ones from being reached.

### Why the bounds are enough

Two batches of one provider are what the tracker needs to go wrong: one to be
covered, one to overwrite the pair. Times are compared with each other only, so
windows of different lengths, a pause and an expiry inside the horizon show the
orders of these events; the proofs cover every horizon. Four seconds are the least in
which a pause as long as a window, a shortened window and the expiry of both batches
fit. A double spend needs two providers; in `challenges` the owner moves one setting at
a time, around at most one challenge (`FewRewired`), because each verdict reads one
snapshot. Stake amounts sit on both tier thresholds (scaled to 5 and 50) with rates
at the floors, which includes amounts that do not divide evenly by the bounty. For
the client, a second settlement needs two transactions and a re-delivery; two
receipts under one key are what it takes for a batch to differ from the intent of the
same key; different keys do not interact. Three epochs are one adopted, one ahead and
one too far ahead; three transactions let two runs of the job publish against each
other and a third come after. Four providers allow two of them to be dropped from a
division in different turns and two to remain. Two withdrawals compete for a nonce and
for a signature; three nonces leave room for a foreign one. Reorganisations as deep
as the confirmations and a catch-up window as long put a deposit on both sides of
every boundary. Two callers and the sweep can all meet on one job, two jobs give the
sweep a record behind the one that stops it, and two legs make a split that fails after
its first.

`PoolOpen` in `settlement_time` leaves out the pause of the escrow pool, which none
of its properties depends on; `money` has it.

`CHECK_DEADLOCK FALSE` in all runs but `payment_escrow`: time, batches and
transactions are bounded, so each instance may come to its end. The sweep never ends.

### Fairness

* `client`: the poll loop runs every phase in every cycle and survives each phase's
  exceptions (`run_settlement_poll_cycle`), and `asyncio.Lock` serves waiters in order,
  so a phase that is able to act again and again acts: strong fairness (a commit in
  progress holds the lock and disables them). A commit ends because the wait for its
  receipt has a timeout: weak fairness.
* `epoch_job`: the operator keeps starting the job and a run that is not killed ends;
  weak fairness of both.
* `pro_rata`: the loop runs.
* `withdrawals`: `run_forever` polls every unresolved intent at each tick, and a
  ledger that refuses a credit accepts it some time later: strong fairness of the poll
  and of the refund of each request, weak fairness of what the tick does next.
* `inbound`: the monitor ticks for ever (weak), and a scan that fails succeeds some
  time later (strong).
* `payment_escrow`: a coroutine runs on (weak), `periodic_cleanup` comes round again
  (weak), the sweep gets a lock it waits for (strong, `asyncio.Lock` is first come
  first served), and the ledger accepts the sweep's refund some time (strong).

Nothing is assumed of the chain (a transaction may wait for ever), of deliveries, of
restarts (bounded in number) or of the disk. That a landed batch can be finalized at
all is part of the abstraction: a challenge or an empty escrow may prevent it on the
real chain, and then the property is not claimed.

## 4. Proofs

Every theorem is about `Spec` of its module for any sets of addresses, receipts, jobs
and so on, and any bounds. Each rests on an inductive invariant that holds at the start,
is kept by every step, one lemma or step per action, and implies the property.

Assumptions on the constants are in the modules, and TLC evaluates them on every run.
Besides types they say: requesters can deposit (`RequestersDeposit`); addresses,
leaves, receipts and providers are finite in number (`FinitelyMany`,
`ClientAssumption`, `AllocationAssumption`), because sums and lengths range over them;
a release plan has a leg and no empty one (`PaymentEscrowAssumption`: the code refuses
both). A theorem with a hypothesis of its own names it below.

### The contracts: `SettlementProofs`

| Theorem | Statement | Argument |
|---|---|---|
| `TypeCorrect` | `Spec => []TypeOK` | `TypeInv` adds `PauseStarted`, that a running pause began in the past: without it `_unpause` could add a negative duration to `totalPausedSeconds` |
| `PauseLedgerCorrect` | `Spec => []PauseLedgerExact` | `LedgerInv` adds `FreshUncounted`: a batch id not used yet has no open seconds, which a commit needs |
| `FinalizationWaits` | `Spec => FinalizeOnlyAfterOpenWindow` | from the ledger: finalization happens unpaused, where elapsed time as the contract computes it is the count of open seconds |
| `ConfigurationPinned` | `Spec => OwnerRejudgesNothing` | the configuration changes only in the owner's setters, which leave time, batches, pauses and stakes alone; all verdicts, the pool and the bond read only those |
| `FloorCorrect` | `SpecBundled => []FloorCoversPending` | `RaceInv` adds `TrackerCovers` and that the two contracts are paused together. `TrackerCovers` is about every pending batch: its wall-clock expiry is at most the tracked one, and if it is not undercut the same holds with the recorded pauses taken out on both sides. A commit that displaces the pair has a later wall-clock expiry; either no pause came in between, or its window is no shorter, or it undercuts |
| `NoStakeEscapes` | `SpecBundled => WithdrawOnlyAfterExpiry` | the floor covers every pending batch, no pause runs during a withdrawal, and the ledger turns the floor into open seconds |
| `BondIsSolvent` | `Spec => []BondSolvent` | `BondInv` adds `LeftWithNothing`: who is not bonded has nothing at stake, so that bonding again overwrites no amount. The two parts of a slash are computed so that rounding stays in the contract's books |
| `TierExposure` | `Spec => []TierIsExposed` | `TierRate` in `BondInv`: an active stake of tier size carries at least the tier's rate, which a slash keeps because it only makes the stake smaller |
| `PaymentIsNet` | `Spec => []PaidNetOfChallenges` | `AccountInv`: for every batch the accumulated invalidated value is the sum over the invalidated leaves, and an id not used yet has none |
| `EscrowIsBacked` | `Spec => []EscrowBacked` | `EscrowInv` adds that nothing is held in any other token, so a rotation, which the code allows at a total of zero, finds nothing on either side; and `AccountInv`, for the requester a finalization takes from |
| `OriginalSpared` | `Spec => []DoubleSpendSparesOriginal` | `SpareInv`: behind every double-spend challenge is a batch committed strictly earlier that holds the leaf. The earliest holder, which exists because times are natural numbers, can therefore not be in the log |

`SpecBundled` is `Spec` with pauses that are bundled, the operational rule in StakeBond's
INFO-4 note; the second divergence above shows that it cannot be dropped. The window
moves either way.

### The client: `BatchSettlementClientProofs`

| Theorem | Statement | Argument |
|---|---|---|
| `ClientTypes` | `Spec => []TypeOK` | `ClientInv`; that a batch stays without repetition is a property of `accumulate`'s check and of what a restart restores |
| `NoCommitStranded` | `Spec => []NothingStranded` | `ClientInv` |
| `ClientSettlesOnce` | `Spec => SettlesOnce` | the refinement of `ReceiptSettlement`: a step either lets one transaction land (`Settle` of its receipts), finalizes one batch (`Pay`), or leaves both counts alone; `ClientInv` says that the receipts of a landing transaction are in no other live one |

`NothingStranded` is not inductive, because a restart replaces the memory by the file.
`ClientInv` says the same of both: memory and file are `Safe`, that is, every live
transaction is tracked, quarantined or covered by an intent, its receipts are in the
ledger of committed ids, and what a restart would put back into the accumulator is in
no live transaction. `CommitInv` carries this over the commit in progress: from the
saved intent to the answer, intent and ids are on disk.

### Reward epochs: `EpochRunnerProofs`, `ProRataProofs`

| Theorem | Statement | Argument |
|---|---|---|
| `PoolSolvent` | `PoolSpec => []Solvent` | `PoolInv` adds that the balance is within what was paid in and that no epoch paid out more than its total, so what a reclaim releases is not negative |
| `ReserveMatches` | `Spec => []ReserveIsOwed` | each call moves one term of the sum and the reserve alike, and a late claim the reserve and `lateClaimed` |
| `ClaimsAreFunded` | `PoolSpec => [](lateClaimed = 0 => ClaimsFunded)` | from the same invariant: what an open epoch still owes is one of the terms of the reserve. `late_claim` shows that the condition cannot be dropped, so the missing check in `claim` is the only gap in the contract's promise |
| `JobTypeCorrect` | `Spec => []TypeOK` | `TypeInv` adds that every plan being published or waiting in the mempool names an epoch of the model |
| `BatchesPaidOnce` | `Spec => []PaidOnce` | `JobInv`, below |
| `NeverTwoAhead` | `Spec => []OneEpochAhead` | `JobInv` |
| `ManifestsSuffice` | `Spec => []ManifestCovers` | `JobInv` |
| `PotIsSpent` | `Spec => []SpendsThePot` | the whole parts and the remainders add up to the pot; fewer units are left over than there are providers, and the order of the remainders hands out each of them once |
| `SharesAreExact` | `Spec => []WithinOneUnit` | a share is the whole part or one more |
| `WorkIsRewarded` | `Spec => []MoreWorkNoLess` | `LoopInv` has `Upward`: who settled more than one who still takes part takes part too; among those, more work has a larger whole part, or the same one and a remainder served earlier |
| `WholeUnitsAreKept` | `Spec => []WholeUnitsKept` | `LoopInv` has `Dropped`: who was dropped had not earned a whole unit in the first division; for the others the divisor only gets smaller |

`JobInv` is about what is on its way as well as about what was published: an epoch that
the chain has or may still get is at most one ahead of the watermark, and then has a
manifest; the watermark has consumed the manifests up to it; no epoch takes a batch that
the manifest of an earlier one names; and an epoch that was not narrowed has all its
batches in its manifest. Without the plans in flight a late transaction could pay
batches that a second run has planned again.

### The bridge: `WithdrawalsProofs`, `InboundMonitorProofs`

| Theorem | Statement | Argument |
|---|---|---|
| `NeverPaidTwice` | `Spec => []NoDoublePay` | `RefundInv`: who is refunded, or about to be (in the handler, in the store, in its file or in the reconciler), is past its broadcast, and its transfer can never be mined: it was never sent, it reverted, or its nonce is below the confirmed one; or the re-poll raised on it (`blind`) |
| `NeverPaidTwiceOverWeb3` | `Spec => [](\A j \in refunds : ~Paid(j))` if `~NullReceipts` | the reconciler never comes to its re-poll, so nobody is in `blind` |
| `SignaturesPayOnce` | `Spec => []SignatureUsedOnce` | `SignatureInv`: an authorized request's nonce is below the wallet's next one, and no two authorized requests of a wallet share one |
| `NoFundsMinted` | `Spec => []NothingMinted` | `LedgerInv`: a wallet's balance plus the number of its requests that are debited and not refunded is within its funds; with `NeverPaidTwice` the paid ones that are not in `blind` are among these |
| `WithdrawalTypes` | `Spec => []TypeOK` | with `LedgerInv` above and the debit's check below, a balance stays between zero and the funds; a transfer that may still be mined has a nonce within the bound |
| `DepositsCreditedOnce` | `Spec => []CreditedOnce` | `LedgerInv`: a deposit whose key is not in the ledger has not been credited; no assumption on the chain or on what the monitor remembers |
| `CreditsBacked` | `Spec => []CreditIsBacked` if `MaxReorg <= Confirmations` | `DepositInv`: a tick works only on blocks that are final, and blocks of credited deposits are |
| `NoDepositSkipped` | `Spec => []NoneSkipped` if `MaxReorg <= Confirmations` | `DepositInv`: every linked deposit between the baseline and the scanned block, in memory and in the checkpoint, is credited or given up, and during a tick, up to its end, or still to do |

The hypothesis `MaxReorg <= Confirmations` is what the confirmations are for; the
mutant `RawTip`, which scans up to the tip, shows that it is needed.

### Payment escrow: `PaymentEscrowProofs`

| Theorem | Statement | Argument |
|---|---|---|
| `JobsPayOnce` | `Spec => []OneLiveEscrow` | `EscrowInv`: calls of one job are serialized, a call that creates has no live escrow of its job beside it, a call that pays or refunds has a live one, and escrows are numbered in the order of creation |
| `SettledForGood` | `Spec => FinalizedOnce` | from `EscrowInv`: the escrow a call settles after its awaits is the one it found PENDING before them, and still is |
| `EscrowIsWhole` | `Spec => []EscrowAccounted` | `MoneyInv`: wallet, recipients, requester and recovery always have the escrow's amount between them; while a release works, recipients have what leaked before and the sum of the first legs of the plan, less those taken back; and what a call read before it waited is at least what is left, so that a transfer of it that succeeds empties the wallet |

### Sums

The contracts' books, the reserve, the pot and the legs of a plan are sums, which the
community modules define by taking elements away in an order nobody knows. TLAPS
cannot instantiate the library's induction theorems here, so `SumTheorems` proves each
law (one element more, one term changed, term by term, a factor, monotone, zeros)
on a smallest finite subset for which it would fail; strict inclusion of finite sets is
well founded, which the library has as a theorem without an operator parameter.

### Checked by TLC only

Liveness is out of this prover's reach: `LandedIsFinalized`, `LaterEpochsRecovered`,
`Terminates`, `RevertedIsRefunded`, `DeepDepositCredited`, `ExpiredSettles`. So are, by
their nature, the two remaining properties that a run refutes, `NoReceiptDropped` and
`DroppedIsRefunded`.

## 5. Not modelled

The parts marked not modelled in `PROJECT.json`, with reasons there. The repository
has about half a million lines, most of them interfaces, network code, model
execution and tooling around the money paths; the models cover a small share of the
lines, and were chosen for what goes wrong when it goes wrong. Within the modelled
parts: gas, reentrancy (the guarded calls are atomic here), contract upgrades, the
retention of published batches (best effort, after the money path), the state files'
encoding and corruption, the eviction of committed ids, the block range of the
recovery scan, the broadcast and gossip of escrow transactions to other nodes
(best effort after the local ledger), and the pruning of resolved intents.

## 6. Plan

1. Proofs: the conditions under which the refuted properties hold
   (`NoReceiptDropped` for clients whose broadcasts do not fail); the safety half of
   the liveness properties, that the step each waits for stays possible until taken.
2. `LedgerSync` on gossip: credits to other nodes, duplicated and reordered, on top of
   `PaymentEscrow`.
3. `PerStageReceiver`, composed with the client: staging, draining, discarding.
4. `StorageSlashing` composed with `StakeBond`; `EmissionController` and
   `CompensationDistributor` (halving schedule, caps, rounding).
5. `FTNSBridge` with `BridgeSecurity`; the delegation budget; k-of-n consensus from
   job to challenge; governance execution.
6. An abstract specification of the contracts (escrow in, at most the declared value
   out, stake at risk until the window closes) implemented by `Settlement`.
