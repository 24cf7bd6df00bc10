----------------------------- MODULE InboundMonitor -----------------------------
(****************************************************************************)
(* InboundMonitor and InboundCheckpointStore of prsm/economy/               *)
(* ftns_onchain.py: deposits seen on chain are credited to the off-chain    *)
(* ledger, from a persistent checkpoint, at a confirmation depth, with      *)
(* three layers of deduplication, over restarts and chain reorganisations.  *)
(*                                                                          *)
(* A deposit is one (tx_hash, log_index).  The webhook is left out.         *)
(****************************************************************************)
EXTENDS Integers, FiniteSets

CONSTANTS
    Deposits,
    Linked,         \* deposits whose sender is linked to a wallet
    Confirmations,
    MaxCatchup,     \* max_catchup_blocks
    MaxReorg,       \* a block this far below the highest tip is final
    CreditFails,    \* may a credit raise?
    MaxHeight,      \* bound: blocks
    MaxCrashes      \* bound: restarts

ASSUME MonitorAssumption ==
    /\ Linked \subseteq Deposits
    /\ {Confirmations, MaxCatchup, MaxReorg, MaxHeight, MaxCrashes} \subseteq Nat
    /\ CreditFails \in BOOLEAN

None == -1

VARIABLES
    height,         \* the chain's tip
    highest,        \* the highest tip so far
    block,          \* deposit -> its block, 0 while it is on no chain
    last,           \* _last_scanned_block, None after a start
    checkpoint,     \* the same in the store
    seen,           \* _credited_tx_hashes
    marked,         \* credited_deposits in the store
    keys,           \* idempotency keys among the ledger's transactions
    credits,        \* deposit -> how often the ledger was credited
    tick,           \* the tick under way: [at, to, todo]
    abandoned,      \* history: deposits whose credit raised, or cut off
    baseline,       \* history: the block the scans started from
    crashes

chainVars == <<height, highest, block>>
monitorVars == <<last, checkpoint, seen, marked, keys, credits, tick, abandoned,
                 baseline>>
vars == <<chainVars, monitorVars, crashes>>

Heights == 0 .. MaxHeight
NoTick == [at |-> "idle", to |-> 0, todo |-> {}]

TypeOK ==
    /\ {height, highest} \subseteq Heights
    /\ height <= highest
    /\ block \in [Deposits -> Heights]
    /\ {last, checkpoint, baseline} \subseteq Heights \cup {None}
    /\ seen \subseteq Deposits
    /\ marked \subseteq Deposits
    /\ keys \subseteq Deposits
    /\ credits \in [Deposits -> Nat]
    /\ tick \in [at : {"idle", "scan", "credit"}, to : Heights, todo : SUBSET Deposits]
    /\ abandoned \subseteq Deposits
    /\ crashes \in 0 .. MaxCrashes

Init ==
    /\ height = 0
    /\ highest = 0
    /\ block = [d \in Deposits |-> 0]
    /\ last = None
    /\ checkpoint = None
    /\ seen = {}
    /\ marked = {}
    /\ keys = {}
    /\ credits = [d \in Deposits |-> 0]
    /\ tick = NoTick
    /\ abandoned = {}
    /\ baseline = None
    /\ crashes = 0

--------------------------------------------------------------------------------
(* A block with the deposits D. *)
NewBlock(D) ==
    /\ height < MaxHeight
    /\ height' = height + 1
    /\ highest' = IF height = highest THEN height + 1 ELSE highest
    /\ \A d \in D : block[d] = 0
    /\ block' = [d \in Deposits |-> IF d \in D THEN height + 1 ELSE block[d]]
    /\ UNCHANGED <<monitorVars, crashes>>

(* The last k blocks are replaced; what was in them may be mined again. *)
Reorg(k) ==
    /\ k \in 1 .. MaxReorg
    /\ k <= height
    /\ height - k >= highest - MaxReorg
    /\ height' = height - k
    /\ UNCHANGED highest
    /\ block' = [d \in Deposits |-> IF block[d] > height - k THEN 0 ELSE block[d]]
    /\ UNCHANGED <<monitorVars, crashes>>

--------------------------------------------------------------------------------
(* The two writes of the store; a failing one is logged. *)
SaveCheckpoint(b, saved) == checkpoint' = IF saved THEN b ELSE checkpoint
MarkCredited(d, saved) == marked' = IF saved THEN marked \cup {d} ELSE marked

(* Without a checkpoint the present tip is the baseline, and nothing is     *)
(* scanned.  The save may fail.                                             *)
FirstTick(saved) ==
    /\ tick = NoTick
    /\ last = None
    /\ checkpoint = None
    /\ last' = height
    /\ SaveCheckpoint(height, saved)
    /\ baseline' = height
    /\ UNCHANGED <<chainVars, seen, marked, keys, credits, tick, abandoned, crashes>>

(* Defect: deposits are credited at the tip of the chain. *)
RawTip == height

ConfirmedTip == height - Confirmations

Resumed == IF last = None THEN checkpoint ELSE last

(* The tip is read, and the window to scan is fixed. *)
BeginTick ==
    /\ tick = NoTick
    /\ Resumed # None
    /\ last' = Resumed
    /\ ConfirmedTip > last'
    /\ tick' = [NoTick EXCEPT !.at = "scan", !.to = ConfirmedTip]
    /\ UNCHANGED <<chainVars, checkpoint, seen, marked, keys, credits, abandoned, baseline,
                   crashes>>

(* eth_getLogs over the window, of which only the last max_catchup_blocks   *)
(* are scanned: what is cut off is left to the operator.                    *)
Scan ==
    LET mined(lo, hi) == {d \in Deposits : block[d] \in lo .. hi}
        cut == tick.to - MaxCatchup
    IN  /\ tick.at = "scan"
        /\ tick' = [tick EXCEPT !.at = "credit",
                                !.todo = mined(last + 1, tick.to) \ mined(0, cut)]
        /\ abandoned' = abandoned \cup mined(last + 1, cut)
        /\ UNCHANGED <<chainVars, last, checkpoint, seen, marked, keys, credits, baseline,
                       crashes>>

(* Defect: a scan that fails advances the checkpoint all the same. *)
ScanFailedAdvances ==
    /\ tick.at = "scan"
    /\ tick' = NoTick
    /\ last' = tick.to
    /\ checkpoint' = tick.to
    /\ UNCHANGED <<chainVars, seen, marked, keys, credits, abandoned, baseline, crashes>>

(* A scan that raises ends the tick and leaves the checkpoint. *)
ScanFailed ==
    /\ tick.at = "scan"
    /\ tick' = NoTick
    /\ UNCHANGED <<chainVars, last, checkpoint, seen, marked, keys, credits, abandoned,
                   baseline, crashes>>

Handled(d) == tick' = [tick EXCEPT !.todo = @ \ {d}]

(* Known in memory or in the store, or from an address nobody linked. *)
SkipDeposit(d) ==
    /\ tick.at = "credit"
    /\ d \in tick.todo
    /\ d \in seen \cup marked \/ d \notin Linked
    /\ seen' = seen \cup ({d} \cap marked)
    /\ Handled(d)
    /\ UNCHANGED <<chainVars, last, checkpoint, marked, keys, credits, abandoned, baseline,
                   crashes>>

(* A linked deposit that neither layer of the monitor knows.  If the lookup *)
(* in the store raises, the memory alone decides.                           *)
Unknown(d, lookup) ==
    /\ tick.at = "credit"
    /\ d \in tick.todo
    /\ d \in Linked \ seen
    /\ lookup => d \notin marked

(* Defect: the credit has no idempotency key. *)
CreditPlain(d) ==
    /\ keys' = keys \cup {d}
    /\ credits' = [credits EXCEPT ![d] = @ + 1]

(* A credit whose key is among the transactions already is a no-op. *)
Credit(d) ==
    /\ keys' = keys \cup {d}
    /\ credits' = IF d \in keys THEN credits ELSE [credits EXCEPT ![d] = @ + 1]

(* The ledger is credited first and the store is marked afterwards: a crash *)
(* may come between, and the mark may fail.                                 *)
CreditDeposit(d, lookup, markSaved) ==
    /\ Unknown(d, lookup)
    /\ Credit(d)
    /\ seen' = seen \cup {d}
    /\ MarkCredited(d, markSaved)
    /\ Handled(d)
    /\ UNCHANGED <<chainVars, last, checkpoint, abandoned, baseline, crashes>>

(* A credit that raises is logged, and the tick goes on. *)
CreditFailed(d, lookup) ==
    /\ CreditFails
    /\ Unknown(d, lookup)
    /\ abandoned' = abandoned \cup {d}
    /\ Handled(d)
    /\ UNCHANGED <<chainVars, last, checkpoint, seen, marked, keys, credits, baseline,
                   crashes>>

(* The checkpoint moves to what was scanned, in the store too if that save  *)
(* does not fail.                                                           *)
EndTick(saved) ==
    /\ tick.at = "credit"
    /\ tick.todo = {}
    /\ tick' = NoTick
    /\ last' = tick.to
    /\ SaveCheckpoint(tick.to, saved)
    /\ UNCHANGED <<chainVars, seen, marked, keys, credits, abandoned, baseline, crashes>>

Restart ==
    /\ crashes < MaxCrashes
    /\ crashes' = crashes + 1
    /\ last' = None
    /\ seen' = {}
    /\ tick' = NoTick
    /\ UNCHANGED <<chainVars, checkpoint, marked, keys, credits, abandoned, baseline>>

TickStep ==
    \/ BeginTick \/ Scan
    \/ \E d \in Deposits : \/ SkipDeposit(d)
                           \/ \E lookup, ok \in BOOLEAN : CreditDeposit(d, lookup, ok)
    \/ \E saved \in BOOLEAN : FirstTick(saved) \/ EndTick(saved)

Next ==
    \/ \E D \in SUBSET Deposits : NewBlock(D)
    \/ \E k \in 1 .. MaxReorg : Reorg(k)
    \/ TickStep
    \/ ScanFailed
    \/ \E d \in Deposits, lookup \in BOOLEAN : CreditFailed(d, lookup)
    \/ Restart

Spec == Init /\ [][Next]_vars

(* The monitor ticks for ever, and a scan succeeds some time. *)
FairSpec == Spec /\ WF_vars(TickStep) /\ SF_vars(Scan)

--------------------------------------------------------------------------------
(****************************************************************************)
(* Properties                                                               *)
(****************************************************************************)

(* A deposit is credited once, however often a restart, a lost mark, a      *)
(* failed lookup or an old checkpoint presents it again: where the monitor  *)
(* has forgotten, the ledger has not (the three layers of _credit_deposit). *)
CreditedOnce == \A d \in Deposits : credits[d] <= 1

(* A credited deposit is on the chain for good: no reorganisation as deep   *)
(* as the confirmations leaves an unbacked credit (confirmed_tip).          *)
CreditIsBacked == \A d \in Deposits : credits[d] > 0 => block[d] # 0

(* The checkpoint never passes a deposit that was not credited: a linked    *)
(* deposit after the baseline and up to the checkpoint is credited, unless  *)
(* its credit raised or it is older than the catch-up window (_tick_async). *)
NoneSkipped ==
    \A d \in Linked \ abandoned :
        block[d] > baseline /\ baseline # None /\ block[d] <= checkpoint
            => credits[d] > 0

(* A linked deposit that stays buried at the confirmation depth is credited *)
(* in the end, over failing scans, lost marks, lost saves and restarts,     *)
(* unless its credit raised or the catch-up window cut it off (_tick_async  *)
(* with run_forever).                                                       *)
DeepDepositCredited ==
    \A d \in Linked :
        LET due == block[d] > baseline /\ block[d] <= height - Confirmations
        IN  (baseline # None /\ due) ~> (credits[d] > 0 \/ d \in abandoned \/ ~due)
================================================================================
