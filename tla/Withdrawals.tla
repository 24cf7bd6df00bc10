------------------------------ MODULE Withdrawals ------------------------------
(****************************************************************************)
(* The withdrawal bridge: POST /wallet/withdraw (prsm/node/api.py),         *)
(* OnChainFTNSLedger.transfer (prsm/economy/ftns_onchain.py) and the        *)
(* pending-withdraw reconciler with its store.  The off-chain balance is    *)
(* debited first, the ERC-20 transfer is broadcast from the escrow account, *)
(* and whatever does not arrive on chain is to be refunded, exactly once.   *)
(*                                                                          *)
(* Requests are concurrent up to the transfer, which holds the ledger's     *)
(* lock.  All withdrawals are of one unit.  A request carries a signature   *)
(* over a nonce of its wallet; two requests may carry the same one.  The    *)
(* escrow key is shared with other clients, whose transactions take nonces. *)
(****************************************************************************)
EXTENDS Naturals, FiniteSets

CONSTANTS
    Jobs,           \* withdraw requests
    Wallets,
    WalletOf,       \* request -> wallet
    Funds,          \* initial off-chain balance of a wallet
    NullReceipts,   \* get_transaction_receipt answers None for a transaction
                    \* that is not mined; web3 raises TransactionNotFound
    SaveOutcomes,   \* {TRUE}: every save of the store succeeds
    MaxNonce,       \* bound: escrow nonces
    MaxCrashes,     \* bound: restarts of the daemon
    NoJob

ASSUME WithdrawalsAssumption ==
    /\ IsFiniteSet(Jobs)
    /\ WalletOf \in [Jobs -> Wallets]
    /\ Funds \in Nat
    /\ NullReceipts \in BOOLEAN
    /\ SaveOutcomes \subseteq BOOLEAN
    /\ MaxNonce \in Nat
    /\ MaxCrashes \in Nat
    /\ NoJob \notin Jobs

VARIABLES
    phase,         \* request -> where its handler is
    signed,        \* request -> the wallet nonce its signature is over
    withdrawNonce, \* wallet -> next_withdraw_nonce
    balance,       \* wallet -> off-chain balance
    refunds,       \* idempotency keys in the ledger: refunded requests
    tx,            \* request -> [nonce, status] of its transfer
    chainNonce,    \* confirmed nonce of the escrow account
    intents,       \* the store: request -> its intent
    disk,          \* the store's file
    rec,           \* the reconciler: [job, at]
    crashes,
    blind          \* observer: requests whose re-poll raised although they
                   \* were mined; no action reads it

vars == <<phase, signed, withdrawNonce, balance, refunds, tx, chainNonce, intents,
          disk, rec, crashes, blind>>

Phases == {"new", "verified", "authorized", "debited", "waiting", "refunding",
           "recording", "done", "dead"}
TxStatus == {"unsigned", "none", "pool", "evicted", "ok", "reverted"}
Intent == {"none", "pending", "owed", "resolved"}

TypeOK ==
    /\ phase \in [Jobs -> Phases]
    /\ signed \in [Jobs -> Nat]
    /\ withdrawNonce \in [Wallets -> Nat]
    /\ balance \in [Wallets -> 0 .. Funds]
    /\ refunds \subseteq Jobs
    /\ tx \in [Jobs -> [nonce : 0 .. MaxNonce, status : TxStatus]]
    /\ chainNonce \in 0 .. MaxNonce
    /\ intents \in [Jobs -> Intent]
    /\ disk \in [Jobs -> Intent]
    /\ rec \in [job : Jobs \cup {NoJob},
                at : {"idle", "nonce", "repoll", "refund", "resolve"}]
    /\ crashes \in 0 .. MaxCrashes
    /\ blind \subseteq Jobs

Resting == [job |-> NoJob, at |-> "idle"]

Init ==
    /\ phase = [j \in Jobs |-> "new"]
    /\ signed = [j \in Jobs |-> 0]
    /\ withdrawNonce = [w \in Wallets |-> 0]
    /\ balance = [w \in Wallets |-> Funds]
    /\ refunds = {}
    /\ tx = [j \in Jobs |-> [nonce |-> 0, status |-> "unsigned"]]
    /\ chainNonce = 0
    /\ intents = [j \in Jobs |-> "none"]
    /\ disk = intents
    /\ rec = Resting
    /\ crashes = 0
    /\ blind = {}

Go(j, from, to) == phase[j] = from /\ phase' = [phase EXCEPT ![j] = to]

--------------------------------------------------------------------------------
(* The signature checks; the nonce is read without the ledger's lock.  Any  *)
(* request may carry a signature over the nonce read, a copy of another     *)
(* request's included.                                                      *)
VerifySignature(j) ==
    /\ Go(j, "new", "verified")
    /\ signed' = [signed EXCEPT ![j] = withdrawNonce[WalletOf[j]]]
    /\ UNCHANGED <<withdrawNonce, balance, refunds, tx, chainNonce, intents, disk,
                   rec, crashes, blind>>

(* Defect: the nonce is bumped without looking at it again. *)
BumpNonce(j) ==
    /\ Go(j, "verified", "authorized")
    /\ withdrawNonce' = [withdrawNonce EXCEPT ![WalletOf[j]] = @ + 1]
    /\ UNCHANGED <<signed, balance, refunds, tx, chainNonce, intents, disk, rec,
                   crashes, blind>>

(* compare_and_bump_withdraw_nonce, under the write lock. *)
ConsumeNonce(j) ==
    /\ Go(j, "verified", "authorized")
    /\ signed[j] = withdrawNonce[WalletOf[j]]
    /\ withdrawNonce' = [withdrawNonce EXCEPT ![WalletOf[j]] = @ + 1]
    /\ UNCHANGED <<signed, balance, refunds, tx, chainNonce, intents, disk, rec,
                   crashes, blind>>

(* The debit looks at the balance again under the write lock. *)
Debit(j) ==
    /\ Go(j, "authorized", "debited")
    /\ balance[WalletOf[j]] > 0
    /\ balance' = [balance EXCEPT ![WalletOf[j]] = @ - 1]
    /\ UNCHANGED <<signed, withdrawNonce, refunds, tx, chainNonce, intents, disk,
                   rec, crashes, blind>>

--------------------------------------------------------------------------------
(* transfer() holds the ledger's lock until it returns. *)
TransferFree == \A j \in Jobs : phase[j] # "waiting"

(* The "pending" nonce: the first one no pooled transaction has. *)
PendingNonce(n) ==
    LET taken == {tx[j].nonce : j \in {i \in Jobs : tx[i].status = "pool"}}
    IN  n >= chainNonce /\ n \notin taken /\ \A m \in chainNonce .. n - 1 : m \in taken

Signed(j, status) ==
    \E n \in 0 .. MaxNonce - 1 :
        PendingNonce(n) /\ tx' = [tx EXCEPT ![j] = [nonce |-> n, status |-> status]]

Send(j) ==
    /\ TransferFree
    /\ Go(j, "debited", "waiting")
    /\ Signed(j, "pool")
    /\ UNCHANGED <<signed, withdrawNonce, balance, refunds, chainNonce, intents,
                   disk, rec, crashes, blind>>

(* An error that may come after the node took the transaction: pending. *)
SendMaybeLanded(j) ==
    /\ TransferFree
    /\ Go(j, "debited", "recording")
    /\ Signed(j, "pool") \/ Signed(j, "none")
    /\ UNCHANGED <<signed, withdrawNonce, balance, refunds, chainNonce, intents,
                   disk, rec, crashes, blind>>

(* Reading the nonce or the gas price fails: nothing was signed, and the    *)
(* failure is taken for one that may come after the node took it.           *)
NonceUnknown(j) ==
    /\ TransferFree
    /\ Go(j, "debited", "recording")
    /\ UNCHANGED <<signed, withdrawNonce, balance, refunds, tx, chainNonce, intents,
                   disk, rec, crashes, blind>>

(* An answer that proves the transaction is in no mempool, or no wallet. *)
SendRejected(j) ==
    /\ TransferFree
    /\ Go(j, "debited", "refunding")
    /\ UNCHANGED <<signed, withdrawNonce, balance, refunds, tx, chainNonce, intents,
                   disk, rec, crashes, blind>>

WaitTimesOut(j) == Go(j, "waiting", "recording")

ReceiptWait(j) ==
    /\ \/ Go(j, "waiting", "done") /\ tx[j].status = "ok"
       \/ Go(j, "waiting", "refunding") /\ tx[j].status = "reverted"
       \/ WaitTimesOut(j)
    /\ UNCHANGED <<signed, withdrawNonce, balance, refunds, tx, chainNonce, intents,
                   disk, rec, crashes, blind>>

(* Defect: the credit has no idempotency key. *)
RefundAgain(j) ==
    /\ refunds' = refunds \cup {j}
    /\ balance' = [balance EXCEPT ![WalletOf[j]] = @ + 1]

(* The credit's idempotency key makes a second refund a no-op. *)
Refund(j) ==
    /\ refunds' = refunds \cup {j}
    /\ balance' = IF j \in refunds THEN balance
                  ELSE [balance EXCEPT ![WalletOf[j]] = @ + 1]

(* record and record_refund_owed keep the first intent of a request; a save *)
(* that fails is only logged.                                               *)
Store(j, intent, ok) ==
    /\ intents' = [intents EXCEPT ![j] = IF @ = "none" THEN intent ELSE @]
    /\ disk' = IF ok THEN intents' ELSE disk

InlineRefund(j, ok) ==
    /\ Go(j, "refunding", "done")
    /\ \/ Refund(j) /\ UNCHANGED <<intents, disk>>
       \/ Store(j, "owed", ok) /\ UNCHANGED <<refunds, balance>>
    /\ UNCHANGED <<signed, withdrawNonce, tx, chainNonce, rec, crashes, blind>>

RecordPending(j, ok) ==
    /\ Go(j, "recording", "done")
    /\ Store(j, "pending", ok)
    /\ UNCHANGED <<signed, withdrawNonce, balance, refunds, tx, chainNonce, rec,
                   crashes, blind>>

--------------------------------------------------------------------------------
Mined(j) == tx[j].status \in {"ok", "reverted"}

(* An intent is taken up.  With a receipt that raises when it is absent,    *)
(* the poll of an unmined transaction ends here; one without a hash is not  *)
(* asked for.                                                               *)
PollIntent(j, ok) ==
    /\ rec = Resting
    /\ \/ /\ intents[j] = "pending" /\ tx[j].status = "ok"
          /\ intents' = [intents EXCEPT ![j] = "resolved"]
          /\ disk' = IF ok THEN intents' ELSE disk
          /\ UNCHANGED rec
       \/ /\ \/ intents[j] = "owed"
             \/ intents[j] = "pending" /\ tx[j].status = "reverted"
          /\ rec' = [job |-> j, at |-> "refund"]
          /\ UNCHANGED <<intents, disk>>
       \/ /\ intents[j] = "pending" /\ ~Mined(j)
          /\ NullReceipts \/ tx[j].status = "unsigned"
          /\ rec' = [job |-> j, at |-> "nonce"]
          /\ UNCHANGED <<intents, disk>>
    /\ UNCHANGED <<phase, signed, withdrawNonce, balance, refunds, tx, chainNonce,
                   crashes, blind>>

RecStep == UNCHANGED <<phase, signed, withdrawNonce, tx, chainNonce, crashes>>

(* _is_dropped: the confirmed nonce is strictly past the transaction's, if  *)
(* the intent has one.                                                      *)
NoncePassed(j) == tx[j].status # "unsigned" /\ chainNonce > tx[j].nonce

(* The read of the confirmed nonce may fail: not dropped, until the next    *)
(* tick.                                                                    *)
ReadConfirmedNonce ==
    /\ rec.at = "nonce"
    /\ \/ NoncePassed(rec.job) /\ rec' = [rec EXCEPT !.at = "repoll"]
       \/ rec' = Resting
    /\ UNCHANGED <<balance, refunds, intents, disk, blind>> /\ RecStep

(* Defect: the receipt is not looked at again. *)
StillAbsentAssumed(j, raised) == TRUE

(* A re-poll that raises, for whatever reason, counts as an absent receipt. *)
StillAbsent(j, raised) == raised \/ ~Mined(j)

(* The receipt is read last: the nonce may have been taken by this very     *)
(* transaction since the first poll.                                        *)
RepollReceipt(raised) ==
    /\ rec.at = "repoll"
    /\ rec' = IF StillAbsent(rec.job, raised) THEN [rec EXCEPT !.at = "refund"]
              ELSE Resting
    /\ blind' = IF raised /\ Mined(rec.job) THEN blind \cup {rec.job} ELSE blind
    /\ UNCHANGED <<balance, refunds, intents, disk>> /\ RecStep

ReconcilerRefund ==
    /\ rec.at = "refund"
    /\ Refund(rec.job)
    /\ rec' = [rec EXCEPT !.at = "resolve"]
    /\ UNCHANGED <<intents, disk, blind>> /\ RecStep

(* Defect: the intent is resolved although the credit raised. *)
RefundFailedResolves ==
    /\ rec.at = "refund"
    /\ rec' = [rec EXCEPT !.at = "resolve"]
    /\ UNCHANGED <<balance, refunds, intents, disk, blind>> /\ RecStep

(* The credit raised: the intent stays for the next tick. *)
RefundFailed ==
    /\ rec.at = "refund"
    /\ rec' = Resting
    /\ UNCHANGED <<balance, refunds, intents, disk, blind>> /\ RecStep

MarkResolved(ok) ==
    /\ rec.at = "resolve"
    /\ intents' = [intents EXCEPT ![rec.job] = "resolved"]
    /\ disk' = IF ok THEN intents' ELSE disk
    /\ rec' = Resting
    /\ UNCHANGED <<balance, refunds, blind>> /\ RecStep

--------------------------------------------------------------------------------
(* A transaction is mined while its nonce is the next one, also after the   *)
(* node it was sent to has evicted it.                                      *)
Mine(j, status) ==
    /\ tx[j].status \in {"pool", "evicted"}
    /\ tx[j].nonce = chainNonce
    /\ tx' = [tx EXCEPT ![j].status = status]
    /\ chainNonce' = chainNonce + 1
    /\ UNCHANGED <<phase, signed, withdrawNonce, balance, refunds, intents, disk,
                   rec, crashes, blind>>

Evict(j) ==
    /\ tx[j].status = "pool"
    /\ tx' = [tx EXCEPT ![j].status = "evicted"]
    /\ UNCHANGED <<phase, signed, withdrawNonce, balance, refunds, chainNonce,
                   intents, disk, rec, crashes, blind>>

(* Another client of the escrow key takes a nonce that is not pooled. *)
OtherTransaction ==
    /\ chainNonce < MaxNonce
    /\ PendingNonce(chainNonce)
    /\ chainNonce' = chainNonce + 1
    /\ UNCHANGED <<phase, signed, withdrawNonce, balance, refunds, tx, intents,
                   disk, rec, crashes, blind>>

(* The daemon dies: requests in their handler are gone, the store is read   *)
(* from its file.                                                           *)
Restart ==
    /\ crashes < MaxCrashes
    /\ crashes' = crashes + 1
    /\ phase' = [j \in Jobs |-> IF phase[j] \in {"new", "done"} THEN phase[j] ELSE "dead"]
    /\ intents' = disk
    /\ rec' = Resting
    /\ UNCHANGED <<signed, withdrawNonce, balance, refunds, tx, chainNonce, disk, blind>>

Handler(j) ==
    \/ VerifySignature(j) \/ ConsumeNonce(j) \/ Debit(j)
    \/ NonceUnknown(j) \/ Send(j) \/ SendMaybeLanded(j) \/ SendRejected(j)
    \/ ReceiptWait(j)
    \/ \E ok \in SaveOutcomes : InlineRefund(j, ok) \/ RecordPending(j, ok)

Poll(j) == \E ok \in SaveOutcomes : PollIntent(j, ok)

RecContinue ==
    \/ ReadConfirmedNonce \/ ReconcilerRefund \/ RefundFailed
    \/ \E raised \in BOOLEAN : RepollReceipt(raised)
    \/ \E ok \in SaveOutcomes : MarkResolved(ok)

Next ==
    \/ \E j \in Jobs : \/ Handler(j) \/ Poll(j) \/ Evict(j)
                       \/ \E status \in {"ok", "reverted"} : Mine(j, status)
    \/ RecContinue
    \/ OtherTransaction
    \/ Restart

Spec == Init /\ [][Next]_vars

(* A tick of the reconciler goes through every unresolved intent, and a     *)
(* ledger that refuses a credit accepts it some time later.                 *)
FairSpec ==
    /\ Spec
    /\ \A j \in Jobs : SF_vars(Poll(j)) /\ SF_vars(ReconcilerRefund /\ rec.job = j)
    /\ WF_vars(RecContinue)

--------------------------------------------------------------------------------
(****************************************************************************)
(* Properties                                                               *)
(****************************************************************************)
Paid(j) == tx[j].status = "ok"

(* A withdrawal that was refunded never arrives on chain, neither before    *)
(* nor after: not when a timeout, a lost answer, an eviction or a crash     *)
(* left its fate open, and not when it is mined between the reconciler's    *)
(* reads (_is_dropped with the rejected and pending outcomes of transfer).  *)
(* The one way to pay twice is the re-poll that raises on a mined transfer: *)
(* the code takes the exception for an absent receipt.                      *)
NoDoublePay == \A j \in refunds : Paid(j) => j \in blind

(* Off-chain balance and on-chain payouts together never exceed what the    *)
(* wallet had, however requests, refunds, replays and restarts interleave   *)
(* (debit before broadcast, idempotent credit); only a payout refunded      *)
(* after a re-poll that raised is not covered.                              *)
NothingMinted ==
    \A w \in Wallets :
        balance[w] + Cardinality({j \in Jobs : /\ WalletOf[j] = w /\ Paid(j)
                                               /\ j \notin blind \cap refunds}) <= Funds

(* One signature is good for one payout, also for requests that run at the  *)
(* same time (compare_and_bump_withdraw_nonce).                             *)
SignatureUsedOnce ==
    \A i, j \in Jobs :
        i # j /\ WalletOf[i] = WalletOf[j] /\ signed[i] = signed[j] =>
            ~(Paid(i) /\ Paid(j))

(* What the store's file has as owed, or as pending and reverted, is        *)
(* refunded, over restarts, failing saves and refused credits               *)
(* (reconcile_pending_withdraws with the store's _load).                    *)
RevertedIsRefunded ==
    \A j \in Jobs :
        (disk[j] = "owed" \/ (disk[j] = "pending" /\ tx[j].status = "reverted"))
            ~> j \in refunds

(* "dropped -> (sp1439) the tx was evicted/dropped and can NEVER mine ...   *)
(* refund and resolve" (pending_withdraw_reconciler.py).                    *)
DroppedIsRefunded ==
    \A j \in Jobs :
        (intents[j] = "pending" /\ ~Mined(j) /\ NoncePassed(j)) ~> j \in refunds
================================================================================
