--------------------------- MODULE WithdrawalsProofs ---------------------------
(****************************************************************************)
(* Theorems about Withdrawals, for any number of requests, wallets, escrow  *)
(* nonces and restarts, with failing saves, with a re-poll that may raise   *)
(* at any time and with either answer for an absent receipt.                *)
(*                                                                          *)
(* NoDoublePay is not inductive: RefundInv adds why a refund is safe.  Who  *)
(* is refunded, or about to be, is past its broadcast and has a transfer    *)
(* that can never be mined (it was never pooled, it reverted, or its nonce  *)
(* is below the confirmed one), unless its re-poll raised.  SignatureInv    *)
(* and LedgerInv rest on it, and the ranges of TypeOK, balances above all,  *)
(* come last.                                                               *)
(****************************************************************************)
EXTENDS Withdrawals, Integers, FiniteSetTheorems, TLAPS

(* The types the other invariants rest on. *)
TypeInv ==
    /\ phase \in [Jobs -> Phases]
    /\ signed \in [Jobs -> Nat]
    /\ withdrawNonce \in [Wallets -> Nat]
    /\ balance \in [Wallets -> Int]
    /\ refunds \subseteq Jobs
    /\ tx \in [Jobs -> [nonce : Nat, status : TxStatus]]
    /\ chainNonce \in Nat
    /\ intents \in [Jobs -> Intent]
    /\ disk \in [Jobs -> Intent]
    /\ rec \in [job : Jobs \cup {NoJob},
                at : {"idle", "nonce", "repoll", "refund", "resolve"}]
    /\ rec.at # "idle" => rec.job \in Jobs
    /\ blind \subseteq Jobs

(* The transfer of j is not on chain and never will be. *)
NeverMined(j) ==
    \/ tx[j].status \in {"unsigned", "none", "reverted"}
    \/ tx[j].status \in {"pool", "evicted"} /\ tx[j].nonce < chainNonce

(* The refund of j rests on a fact, or on a re-poll that raised. *)
Refundable(j) == NeverMined(j) \/ j \in blind

(* j's handler will not broadcast any more. *)
PastSend(j) == phase[j] \in {"refunding", "done", "dead"}

(* The handler has returned or was killed. *)
Returned == {"done", "dead"}

(* Why the refund of j is safe wherever it is decided. *)
JobFacts(j) ==
    /\ phase[j] \in {"new", "verified", "authorized", "debited"} =>
          tx[j].status = "unsigned"
    /\ phase[j] = "refunding" => NeverMined(j)
    /\ intents[j] # "none" => phase[j] \in Returned
    /\ disk[j] # "none" => phase[j] \in Returned
    /\ intents[j] = "owed" => NeverMined(j)
    /\ disk[j] = "owed" => NeverMined(j)
    /\ j \in refunds => PastSend(j) /\ Refundable(j)

(* What the reconciler has found before it acts. *)
RecFacts ==
    /\ rec.at # "idle" => phase[rec.job] \in Returned
    /\ rec.at = "repoll" => /\ tx[rec.job].status # "unsigned"
                            /\ tx[rec.job].nonce < chainNonce
    /\ rec.at \in {"refund", "resolve"} => Refundable(rec.job)

(* The inductive invariant of the refunds. *)
RefundInv == TypeInv /\ RecFacts /\ \A j \in Jobs : JobFacts(j)

(* No request has begun, nothing is on chain or in the store. *)
LEMMA RefundInvInit ==
    ASSUME Init
    PROVE  RefundInv
BY WithdrawalsAssumption DEF Init, RefundInv, TypeInv, Resting, Phases, TxStatus, Intent,
   Returned, PastSend, NeverMined, Refundable, JobFacts, RecFacts

(* The request's own steps up to the broadcast (post_withdraw and           *)
(* transfer).                                                               *)
LEMMA HandlerKeepsInv ==
    ASSUME RefundInv, NEW j \in Jobs, Handler(j)
    PROVE  RefundInv'
<1> USE WithdrawalsAssumption DEF RefundInv, TypeInv, JobFacts, RecFacts, NeverMined, PastSend,
        Refundable, Returned, Go,
        Phases
<1>1. CASE VerifySignature(j)
  BY <1>1 DEF VerifySignature
<1>2. CASE ConsumeNonce(j)
  BY <1>2 DEF ConsumeNonce
<1>3. CASE Debit(j)
  BY <1>3 DEF Debit
<1>4. CASE NonceUnknown(j) \/ SendRejected(j)
  <2>1. /\ phase[j] = "debited"
        /\ phase' \in {[phase EXCEPT ![j] = "refunding"],
                       [phase EXCEPT ![j] = "recording"]}
        /\ UNCHANGED <<signed, withdrawNonce, balance, refunds, tx, chainNonce, intents,
                       disk, rec, blind>>
    BY <1>4 DEF NonceUnknown, SendRejected
  <2>2. TypeInv'
    BY <2>1
  <2>3. \A i \in Jobs : JobFacts(i)'
    BY <2>1
  <2> QED BY <2>1, <2>2, <2>3
<1>5. CASE Send(j) \/ SendMaybeLanded(j)
  <2>1. PICK n \in Nat, status \in TxStatus :
            tx' = [tx EXCEPT ![j] = [nonce |-> n, status |-> status]]
    BY <1>5 DEF Send, SendMaybeLanded, Signed, TxStatus
  <2>2. /\ phase[j] = "debited"
        /\ phase' \in {[phase EXCEPT ![j] = "waiting"],
                       [phase EXCEPT ![j] = "recording"]}
        /\ UNCHANGED <<signed, withdrawNonce, balance, refunds, chainNonce, intents,
                       disk, rec, blind>>
    BY <1>5 DEF Send, SendMaybeLanded
  <2>3. TypeInv'
    BY <2>1, <2>2
  <2>4. ASSUME NEW i \in Jobs PROVE JobFacts(i)'
    BY <2>1, <2>2
  <2>5. RecFacts'
    BY <2>1, <2>2
  <2> QED BY <2>3, <2>4, <2>5
<1>6. CASE ReceiptWait(j)
  <2>1. /\ phase[j] = "waiting"
        /\ \/ phase' \in {[phase EXCEPT ![j] = "done"],
                          [phase EXCEPT ![j] = "recording"]}
           \/ phase' = [phase EXCEPT ![j] = "refunding"] /\ tx[j].status = "reverted"
        /\ UNCHANGED <<signed, withdrawNonce, balance, refunds, tx, chainNonce, intents,
                       disk, rec, blind>>
    BY <1>6 DEF ReceiptWait, WaitTimesOut
  <2>2. TypeInv'
    BY <2>1
  <2>3. \A i \in Jobs : JobFacts(i)'
    BY <2>1
  <2> QED BY <2>1, <2>2, <2>3
<1>7. CASE \E ok \in SaveOutcomes : InlineRefund(j, ok)
  <2>1. /\ phase[j] = "refunding"
        /\ phase' = [phase EXCEPT ![j] = "done"]
        /\ UNCHANGED <<signed, withdrawNonce, tx, chainNonce, rec, blind>>
    BY <1>7 DEF InlineRefund
  <2>2. CASE Refund(j) /\ UNCHANGED <<intents, disk>>
    BY <2>1, <2>2 DEF Refund
  <2>3. CASE \E ok \in SaveOutcomes :
                 Store(j, "owed", ok) /\ UNCHANGED <<refunds, balance>>
    BY <2>1, <2>3 DEF Store, Intent
  <2> QED BY <1>7, <2>2, <2>3 DEF InlineRefund
<1>8. CASE \E ok \in SaveOutcomes : RecordPending(j, ok)
  BY <1>8 DEF RecordPending, Store, Intent
<1> QED BY <1>1, <1>2, <1>3, <1>4, <1>5, <1>6, <1>7, <1>8 DEF Handler

(* The reconciler refunds only after its own reads proved the transfer dead *)
(* (reconcile_pending_withdraws and _is_dropped).                           *)
LEMMA ReconcilerKeepsInv ==
    ASSUME RefundInv, RecContinue \/ \E j \in Jobs : Poll(j)
    PROVE  RefundInv'
<1> USE WithdrawalsAssumption DEF RefundInv, TypeInv, JobFacts, RecFacts, NeverMined, PastSend,
        Refundable, Returned,
        RecStep
<1>1. CASE \E j \in Jobs : Poll(j)
  <2>1. PICK j \in Jobs, ok \in SaveOutcomes : PollIntent(j, ok)
    BY <1>1 DEF Poll
  <2>2. /\ rec = Resting
        /\ intents[j] # "none"
        /\ UNCHANGED <<phase, signed, withdrawNonce, balance, refunds, tx, chainNonce,
                       blind>>
    BY <2>1 DEF PollIntent
  <2>3. CASE /\ intents' = [intents EXCEPT ![j] = "resolved"]
             /\ disk' = IF ok THEN intents' ELSE disk
             /\ UNCHANGED rec
    BY <2>2, <2>3 DEF Intent, Resting
  <2>4. CASE /\ rec' = [job |-> j, at |-> "refund"]
             /\ intents[j] = "owed" \/ tx[j].status = "reverted"
             /\ UNCHANGED <<intents, disk>>
    BY <2>2, <2>4 DEF Intent
  <2>5. CASE /\ rec' = [job |-> j, at |-> "nonce"]
             /\ UNCHANGED <<intents, disk>>
    BY <2>2, <2>5 DEF Intent
  <2> QED BY <2>1, <2>3, <2>4, <2>5 DEF PollIntent
<1>2. CASE ReadConfirmedNonce
  BY <1>2 DEF ReadConfirmedNonce, NoncePassed, Resting
<1>3. CASE \E raised \in BOOLEAN : RepollReceipt(raised)
  BY <1>3 DEF RepollReceipt, StillAbsent, Mined, Resting, TxStatus
<1>4. CASE ReconcilerRefund
  BY <1>4 DEF ReconcilerRefund, Refund
<1>5. CASE RefundFailed
  BY <1>5 DEF RefundFailed, Resting
<1>6. CASE \E ok \in SaveOutcomes : MarkResolved(ok)
  BY <1>6 DEF MarkResolved, Resting, Intent
<1> QED BY <1>1, <1>2, <1>3, <1>4, <1>5, <1>6 DEF RecContinue

(* A block mines only the next nonce, and confirmed nonces only grow. *)
LEMMA ChainKeepsInv ==
    ASSUME RefundInv,
           \/ \E j \in Jobs : \/ Evict(j)
                              \/ \E status \in {"ok", "reverted"} : Mine(j, status)
           \/ OtherTransaction
    PROVE  RefundInv'
<1> USE WithdrawalsAssumption DEF RefundInv, TypeInv, JobFacts, RecFacts, NeverMined, PastSend,
        Refundable, Returned,
        TxStatus
<1>1. ASSUME NEW j \in Jobs, NEW status \in {"ok", "reverted"}, Mine(j, status)
      PROVE  RefundInv'
  BY <1>1 DEF Mine
<1>2. ASSUME NEW j \in Jobs, Evict(j)
      PROVE  RefundInv'
  BY <1>2 DEF Evict
<1>3. CASE OtherTransaction
  BY <1>3 DEF OtherTransaction
<1> QED BY <1>1, <1>2, <1>3

(* A restart forgets the requests under way, none of which has a refund     *)
(* that its file does not justify (the store's _load).                      *)
LEMMA RestartKeepsInv ==
    ASSUME RefundInv, Restart \/ UNCHANGED vars
    PROVE  RefundInv'
<1> USE WithdrawalsAssumption DEF RefundInv, TypeInv, JobFacts, RecFacts, NeverMined, PastSend,
        Refundable, Returned
<1>1. CASE Restart
  BY <1>1 DEF Restart, Resting, Phases
<1>2. CASE UNCHANGED vars
  BY <1>2 DEF vars
<1> QED BY <1>1, <1>2

(* Every step of the bridge keeps the invariant (post_withdraw, transfer    *)
(* and reconcile_pending_withdraws).                                        *)
LEMMA RefundInvStep ==
    ASSUME RefundInv, [Next]_vars
    PROVE  RefundInv'
BY HandlerKeepsInv, ReconcilerKeepsInv, ChainKeepsInv, RestartKeepsInv DEF Next

(* For any number of requests and restarts, no withdrawal is both refunded  *)
(* and paid on chain but after a re-poll that raised (transfer's outcomes   *)
(* with _is_dropped's order of reads).                                      *)
THEOREM NeverPaidTwice == Spec => []NoDoublePay
<1>1. RefundInv => NoDoublePay
  BY DEF RefundInv, TypeInv, NoDoublePay, Paid, NeverMined, Refundable, JobFacts
<1> QED BY RefundInvInit, RefundInvStep, <1>1, PTL DEF Spec

(* With receipts that raise when they are absent, as web3's do, the poll of *)
(* an unmined transfer ends before the nonce is read: the re-poll is never  *)
(* reached.                                                                 *)
NotRepolled ==
    /\ blind = {}
    /\ rec.at # "repoll"
    /\ rec.at = "nonce" => tx[rec.job].status = "unsigned"

(* Every step keeps the re-poll out of reach (reconcile_pending_withdraws). *)
LEMMA NotRepolledStep ==
    ASSUME ~NullReceipts, RefundInv, NotRepolled, [Next]_vars
    PROVE  NotRepolled'
<1> USE DEF RefundInv, TypeInv, JobFacts, RecFacts, Returned, NotRepolled, RecStep, Resting
<1>1. CASE \E j \in Jobs : Handler(j)
  <2>1. PICK j \in Jobs : Handler(j)
    BY <1>1
  <2>2. UNCHANGED <<rec, blind>> /\ phase[j] \notin Returned
    BY <2>1 DEF Handler, VerifySignature, ConsumeNonce, Debit, NonceUnknown, SendRejected,
       Send, SendMaybeLanded, ReceiptWait, WaitTimesOut, InlineRefund, RecordPending, Go
  <2>3. \A i \in Jobs \ {j} : tx'[i] = tx[i]
    BY <2>1 DEF Handler, VerifySignature, ConsumeNonce, Debit, NonceUnknown, SendRejected,
       Send, SendMaybeLanded, Signed, ReceiptWait, WaitTimesOut, InlineRefund,
       RecordPending
  <2> QED BY <2>2, <2>3
<1>2. CASE \E j \in Jobs : Poll(j)
  BY <1>2 DEF Poll, PollIntent
<1>3. CASE ReadConfirmedNonce \/ \E raised \in BOOLEAN : RepollReceipt(raised)
  BY <1>3 DEF ReadConfirmedNonce, NoncePassed, RepollReceipt
<1>4. CASE ReconcilerRefund \/ RefundFailed \/ \E ok \in SaveOutcomes : MarkResolved(ok)
  BY <1>4 DEF ReconcilerRefund, RefundFailed, MarkResolved
<1>5. CASE \E j \in Jobs : Evict(j) \/ \E status \in {"ok", "reverted"} : Mine(j, status)
  BY <1>5 DEF Evict, Mine
<1>6. CASE OtherTransaction \/ Restart \/ UNCHANGED vars
  BY <1>6 DEF OtherTransaction, Restart, vars
<1> QED BY <1>1, <1>2, <1>3, <1>4, <1>5, <1>6 DEF Next, RecContinue

(* With the receipts web3 gives, no refunded withdrawal is ever paid on     *)
(* chain, without exception: what a provider that answers null for an       *)
(* absent receipt would lose is the price of the drop check it would make   *)
(* work (_get_receipt_status with _is_dropped).                             *)
THEOREM NeverPaidTwiceOverWeb3 ==
    ASSUME ~NullReceipts
    PROVE  Spec => [](\A j \in refunds : ~Paid(j))
<1>1. Init => NotRepolled
  BY DEF Init, NotRepolled, Resting
<1>2. RefundInv /\ NotRepolled /\ [Next]_vars => NotRepolled'
  BY NotRepolledStep
<1>3. RefundInv /\ NotRepolled => \A j \in refunds : ~Paid(j)
  BY DEF RefundInv, TypeInv, NotRepolled, Paid, NeverMined, Refundable, JobFacts
<1> QED BY RefundInvInit, RefundInvStep, <1>1, <1>2, <1>3, PTL DEF Spec

--------------------------------------------------------------------------------
(****************************************************************************)
(* SignatureUsedOnce: who consumed a nonce carries one below the wallet's,  *)
(* and no two of a wallet carry the same.                                   *)
(****************************************************************************)
Consumed(j) ==
    \/ phase[j] \in {"authorized", "debited", "waiting", "refunding", "recording"}
    \/ tx[j].status # "unsigned"

(* The inductive invariant of the signatures. *)
SignatureInv ==
    /\ \A j \in Jobs : Consumed(j) => signed[j] < withdrawNonce[WalletOf[j]]
    /\ \A i, j \in Jobs :
          i # j /\ WalletOf[i] = WalletOf[j] /\ Consumed(i) /\ Consumed(j) =>
              signed[i] # signed[j]

(* A request becomes a consumer only by compare_and_bump_withdraw_nonce; a  *)
(* signature is read only before.                                           *)
LEMMA ConsumersAreOld ==
    ASSUME RefundInv, [Next]_vars
    PROVE  \/ /\ UNCHANGED <<signed, withdrawNonce>>
              /\ \A i \in Jobs : Consumed(i)' => Consumed(i)
           \/ \E j \in Jobs :
                 \/ ConsumeNonce(j)
                 \/ VerifySignature(j)
<1> USE DEF RefundInv, TypeInv, JobFacts, Consumed, Go, RecStep
<1>1. CASE \E j \in Jobs : Handler(j)
  <2>1. PICK j \in Jobs : Handler(j)
    BY <1>1
  <2>2. CASE Debit(j) \/ NonceUnknown(j) \/ SendRejected(j)
    BY <2>2 DEF Debit, NonceUnknown, SendRejected
  <2>3. CASE Send(j) \/ SendMaybeLanded(j)
    BY <2>3 DEF Send, SendMaybeLanded, Signed
  <2>4. CASE ReceiptWait(j)
    BY <2>4 DEF ReceiptWait, WaitTimesOut
  <2>5. CASE \E ok \in SaveOutcomes : InlineRefund(j, ok) \/ RecordPending(j, ok)
    BY <2>5 DEF InlineRefund, RecordPending
  <2> QED BY <2>1, <2>2, <2>3, <2>4, <2>5 DEF Handler
<1>2. CASE RecContinue \/ \E j \in Jobs : Poll(j)
  BY <1>2 DEF RecContinue, Poll, PollIntent, ReadConfirmedNonce, RepollReceipt,
     ReconcilerRefund, RefundFailed, MarkResolved
<1>3. CASE \E j \in Jobs : Evict(j) \/ \E status \in {"ok", "reverted"} : Mine(j, status)
  BY <1>3 DEF Evict, Mine
<1>4. CASE OtherTransaction
  BY <1>4 DEF OtherTransaction
<1>5. CASE Restart
  BY <1>5 DEF Restart
<1>6. CASE UNCHANGED vars
  BY <1>6 DEF vars
<1> QED BY <1>1, <1>2, <1>3, <1>4, <1>5, <1>6 DEF Next

(* Consuming a nonce takes a value no earlier consumer has                  *)
(* (compare_and_bump_withdraw_nonce).                                       *)
LEMMA SignatureInvStep ==
    ASSUME RefundInv, SignatureInv, [Next]_vars
    PROVE  SignatureInv'
<1>1. CASE /\ UNCHANGED <<signed, withdrawNonce>>
           /\ \A i \in Jobs : Consumed(i)' => Consumed(i)
  BY <1>1 DEF SignatureInv
<1>2. ASSUME NEW j \in Jobs, VerifySignature(j)
      PROVE  SignatureInv'
  <2>1. /\ ~Consumed(j)'
        /\ \A i \in Jobs : Consumed(i)' => Consumed(i)
        /\ \A i \in Jobs \ {j} : signed'[i] = signed[i]
        /\ UNCHANGED withdrawNonce
    BY <1>2 DEF VerifySignature, RefundInv, TypeInv, JobFacts, Consumed, Go
  <2> QED BY <2>1 DEF SignatureInv
<1>3. ASSUME NEW j \in Jobs, ConsumeNonce(j)
      PROVE  SignatureInv'
  <2>1. /\ \A i \in Jobs \ {j} : Consumed(i)' => Consumed(i)
        /\ UNCHANGED signed
        /\ signed[j] = withdrawNonce[WalletOf[j]]
        /\ withdrawNonce' = [withdrawNonce EXCEPT ![WalletOf[j]] = @ + 1]
    BY <1>3 DEF ConsumeNonce, RefundInv, TypeInv, Consumed, Go
  <2>2. /\ signed \in [Jobs -> Nat]
        /\ withdrawNonce \in [Wallets -> Nat]
        /\ WalletOf \in [Jobs -> Wallets]
    BY WithdrawalsAssumption DEF RefundInv, TypeInv
  <2>3. ASSUME NEW i \in Jobs, Consumed(i)'
        PROVE  signed'[i] < withdrawNonce'[WalletOf[i]]
    BY <2>1, <2>2, <2>3 DEF SignatureInv
  <2>4. ASSUME NEW i \in Jobs \ {j}, WalletOf[i] = WalletOf[j], Consumed(i)'
        PROVE  signed'[i] # signed'[j]
    BY <2>1, <2>2, <2>4 DEF SignatureInv
  <2>5. ASSUME NEW i \in Jobs, NEW k \in Jobs, i # k, WalletOf[i] = WalletOf[k],
               Consumed(i)', Consumed(k)'
        PROVE  signed'[i] # signed'[k]
    <3>1. CASE i = j \/ k = j
      BY <2>4, <2>5, <3>1
    <3>2. CASE i # j /\ k # j
      BY <2>1, <2>5, <3>2 DEF SignatureInv
    <3> QED BY <3>1, <3>2
  <2> QED BY <2>3, <2>5 DEF SignatureInv
<1> QED BY <1>1, <1>2, <1>3, ConsumersAreOld

(* Two paid withdrawals of a wallet never carry the same signature, for any *)
(* number of concurrent requests and replays                                *)
(* (compare_and_bump_withdraw_nonce against the unlocked check of           *)
(* post_withdraw).                                                          *)
THEOREM SignaturesPayOnce == Spec => []SignatureUsedOnce
<1>1. Init => SignatureInv
  BY DEF Init, SignatureInv, Consumed
<1>2. SignatureInv => SignatureUsedOnce
  BY DEF SignatureInv, Consumed, SignatureUsedOnce, Paid
<1> QED BY RefundInvInit, RefundInvStep, SignatureInvStep, <1>1, <1>2, PTL DEF Spec

--------------------------------------------------------------------------------
(****************************************************************************)
(* NothingMinted: what the wallet has, and one unit for every withdrawal    *)
(* that is still open, never exceed what it had.  A paid withdrawal stays   *)
(* open in this sense, because it is never refunded.                        *)
(****************************************************************************)
Open(j) ==
    /\ j \notin refunds
    /\ \/ phase[j] \in {"debited", "waiting", "refunding", "recording"}
       \/ tx[j].status # "unsigned"
       \/ intents[j] # "none"
       \/ disk[j] # "none"

(* The open withdrawals of a wallet. *)
Outstanding(w) == {j \in Jobs : WalletOf[j] = w /\ Open(j)}

(* The inductive invariant of the balances. *)
LedgerInv ==
    /\ \A w \in Wallets : balance[w] + Cardinality(Outstanding(w)) <= Funds
    /\ rec.at # "idle" => intents[rec.job] # "none"

(* What a step may do to the open withdrawals and to the balances. *)
NothingOpens == UNCHANGED balance /\ \A i \in Jobs : Open(i)' => Open(i)

(* Withdrawal j is debited. *)
Opens(j) ==
    /\ balance' = [balance EXCEPT ![WalletOf[j]] = @ - 1]
    /\ \A i \in Jobs \ {j} : Open(i)' => Open(i)

(* Withdrawal j is refunded. *)
Closes(j) ==
    /\ Open(j) /\ ~Open(j)'
    /\ balance' = [balance EXCEPT ![WalletOf[j]] = @ + 1]
    /\ \A i \in Jobs : Open(i)' => Open(i)

(* A credit closes its withdrawal, or is a repetition and changes nothing   *)
(* (the idempotency key of credit).                                         *)
LEMMA RefundCloses ==
    ASSUME TypeInv, NEW j \in Jobs, Refund(j), UNCHANGED <<tx, intents, disk>>,
           \/ phase[j] = "refunding"
           \/ intents[j] # "none",
           \A i \in Jobs : \/ phase'[i] = phase[i]
                           \/ phase'[i] = "done" /\ phase[i] # "done"
    PROVE  NothingOpens \/ Closes(j)
<1>1. \A i \in Jobs : Open(i)' => Open(i)
  BY DEF Refund, Open, TypeInv
<1>2. CASE j \in refunds
  BY <1>1, <1>2 DEF Refund, NothingOpens
<1>3. CASE j \notin refunds
  <2>1. Open(j) /\ ~Open(j)'
    BY <1>3 DEF Open, Refund
  <2> QED BY <1>1, <1>3, <2>1 DEF Refund, Closes
<1> QED BY <1>2, <1>3

(* The steps of a request: only the debit opens, only a refund closes. *)
LEMMA HandlerAccounts ==
    ASSUME RefundInv, NEW j \in Jobs, Handler(j)
    PROVE  NothingOpens \/ Opens(j) \/ Closes(j)
<1> USE DEF RefundInv, TypeInv, Go
<1>1. CASE VerifySignature(j) \/ ConsumeNonce(j)
  BY <1>1 DEF VerifySignature, ConsumeNonce, NothingOpens, Open
<1>2. CASE Debit(j)
  BY <1>2 DEF Debit, Opens, Open
<1>3. CASE NonceUnknown(j) \/ SendRejected(j)
  BY <1>3 DEF NonceUnknown, SendRejected, NothingOpens, Open
<1>4. CASE Send(j) \/ SendMaybeLanded(j)
  BY <1>4 DEF Send, SendMaybeLanded, Signed, NothingOpens, Open
<1>5. CASE ReceiptWait(j)
  BY <1>5 DEF ReceiptWait, WaitTimesOut, NothingOpens, Open
<1>6. ASSUME NEW ok \in SaveOutcomes, InlineRefund(j, ok)
      PROVE  NothingOpens \/ Closes(j)
  <2>1. CASE Refund(j) /\ UNCHANGED <<intents, disk>>
    BY <1>6, <2>1, RefundCloses DEF InlineRefund
  <2>2. CASE Store(j, "owed", ok) /\ UNCHANGED <<refunds, balance>>
    <3>1. /\ phase[j] = "refunding"
          /\ \A i \in Jobs \ {j} : phase'[i] = phase[i] /\ intents'[i] = intents[i]
          /\ disk' = intents' \/ disk' = disk
          /\ UNCHANGED <<refunds, balance, tx>>
      BY <1>6, <2>2 DEF InlineRefund, Store
    <3> QED BY <3>1 DEF NothingOpens, Open
  <2> QED BY <1>6, <2>1, <2>2 DEF InlineRefund
<1>7. ASSUME NEW ok \in SaveOutcomes, RecordPending(j, ok)
      PROVE  NothingOpens
  <2>1. /\ phase[j] = "recording"
        /\ \A i \in Jobs \ {j} : phase'[i] = phase[i] /\ intents'[i] = intents[i]
        /\ disk' = intents' \/ disk' = disk
        /\ UNCHANGED <<refunds, balance, tx>>
    BY <1>7 DEF RecordPending, Store
  <2> QED BY <2>1 DEF NothingOpens, Open
<1> QED BY <1>1, <1>2, <1>3, <1>4, <1>5, <1>6, <1>7 DEF Handler

(* The reconciler, the chain and a restart open nothing; the reconciler's   *)
(* refund closes the intent it is at (reconcile_pending_withdraws).         *)
LEMMA OthersAccount ==
    ASSUME RefundInv, LedgerInv,
           \/ RecContinue \/ OtherTransaction \/ Restart
           \/ \E j \in Jobs : \/ Poll(j) \/ Evict(j)
                              \/ \E status \in {"ok", "reverted"} : Mine(j, status)
    PROVE  NothingOpens \/ \E j \in Jobs : Closes(j)
<1> USE DEF RefundInv, TypeInv, RecStep
<1>1. CASE \E j \in Jobs : Poll(j)
  <2>1. PICK j \in Jobs, ok \in SaveOutcomes : PollIntent(j, ok)
    BY <1>1 DEF Poll
  <2>2. /\ intents[j] # "none"
        /\ \A i \in Jobs \ {j} : intents'[i] = intents[i]
        /\ disk' = intents' \/ disk' = disk
        /\ UNCHANGED <<refunds, balance, phase, tx>>
    BY <2>1 DEF PollIntent
  <2> QED BY <2>2 DEF NothingOpens, Open
<1>2. CASE \/ ReadConfirmedNonce \/ RefundFailed
           \/ \E raised \in BOOLEAN : RepollReceipt(raised)
  BY <1>2 DEF ReadConfirmedNonce, RepollReceipt, RefundFailed, NothingOpens, Open
<1>3. CASE ReconcilerRefund
  <2>1. rec.job \in Jobs /\ intents[rec.job] # "none"
    BY <1>3 DEF ReconcilerRefund, LedgerInv
  <2> QED BY <1>3, <2>1, RefundCloses DEF ReconcilerRefund
<1>4. ASSUME NEW ok \in SaveOutcomes, MarkResolved(ok)
      PROVE  NothingOpens
  <2>1. /\ intents[rec.job] # "none"
        /\ \A i \in Jobs \ {rec.job} : intents'[i] = intents[i]
        /\ disk' = intents' \/ disk' = disk
        /\ UNCHANGED <<refunds, balance, phase, tx>>
    BY <1>4 DEF MarkResolved, LedgerInv
  <2> QED BY <2>1 DEF NothingOpens, Open
<1>5. CASE \E j \in Jobs : Evict(j) \/ \E status \in {"ok", "reverted"} : Mine(j, status)
  BY <1>5 DEF Evict, Mine, NothingOpens, Open
<1>6. CASE OtherTransaction
  BY <1>6 DEF OtherTransaction, NothingOpens, Open
<1>7. CASE Restart
  BY <1>7 DEF Restart, NothingOpens, Open
<1> QED BY <1>1, <1>2, <1>3, <1>4, <1>5, <1>6, <1>7 DEF RecContinue

(* The intent the reconciler is at stays in the store. *)
LEMMA RecKeepsIntent ==
    ASSUME RefundInv, LedgerInv, [Next]_vars
    PROVE  rec'.at # "idle" => intents'[rec'.job] # "none"
<1> USE DEF RefundInv, TypeInv, LedgerInv, RecStep
<1>1. CASE \E j \in Jobs : Handler(j)
  <2>1. PICK j \in Jobs : Handler(j)
    BY <1>1
  <2>2. /\ UNCHANGED rec
        /\ \/ UNCHANGED intents
           \/ \E i \in {"owed", "pending"} :
                 intents' = [intents EXCEPT ![j] = IF @ = "none" THEN i ELSE @]
    BY <2>1 DEF Handler, VerifySignature, ConsumeNonce, Debit, NonceUnknown, SendRejected,
       Send, SendMaybeLanded, ReceiptWait, InlineRefund, RecordPending, Store
  <2> QED BY <2>2
<1>2. CASE \E j \in Jobs : Poll(j)
  <2>1. PICK j \in Jobs, ok \in SaveOutcomes : PollIntent(j, ok)
    BY <1>2 DEF Poll
  <2>2. /\ rec.at = "idle"
        /\ \/ UNCHANGED rec
           \/ rec'.job = j /\ UNCHANGED intents /\ intents[j] # "none"
    BY <2>1 DEF PollIntent, Resting
  <2> QED BY <2>2
<1>3. CASE \/ ReadConfirmedNonce \/ ReconcilerRefund \/ RefundFailed
           \/ \E raised \in BOOLEAN : RepollReceipt(raised)
  BY <1>3 DEF ReadConfirmedNonce, RepollReceipt, ReconcilerRefund, RefundFailed, Resting
<1>4. CASE \E ok \in SaveOutcomes : MarkResolved(ok)
  BY <1>4 DEF MarkResolved, Resting
<1>5. CASE \E j \in Jobs : Evict(j) \/ \E status \in {"ok", "reverted"} : Mine(j, status)
  BY <1>5 DEF Evict, Mine
<1>6. CASE OtherTransaction \/ Restart \/ UNCHANGED vars
  BY <1>6 DEF OtherTransaction, Restart, Resting, vars
<1> QED BY <1>1, <1>2, <1>3, <1>4, <1>5, <1>6 DEF Next, RecContinue

(* The account of a wallet over the three kinds of steps. *)
LEMMA AccountsKept ==
    ASSUME TypeInv, LedgerInv, NEW w \in Wallets,
           NothingOpens \/ \E j \in Jobs : Opens(j) \/ Closes(j)
    PROVE  balance'[w] + Cardinality(Outstanding(w)') <= Funds
<1> DEFINE S == Outstanding(w)
           T == Outstanding(w)'
<1>1. /\ IsFiniteSet(S) /\ IsFiniteSet(T)
      /\ Cardinality(S) \in Nat /\ Cardinality(T) \in Nat
  BY WithdrawalsAssumption, FS_Subset, FS_CardinalityType DEF Outstanding
<1>2. /\ balance[w] \in Int
      /\ Funds \in Nat
      /\ balance[w] + Cardinality(S) <= Funds
      /\ balance \in [Wallets -> Int]
      /\ WalletOf \in [Jobs -> Wallets]
  BY WithdrawalsAssumption DEF TypeInv, LedgerInv
<1>3. CASE balance'[w] = balance[w] /\ T \subseteq S
  <2>1. Cardinality(T) <= Cardinality(S)
    BY <1>1, <1>3, FS_Subset
  <2> QED BY <1>1, <1>2, <1>3, <2>1
<1>4. ASSUME NEW j \in Jobs, Opens(j)
      PROVE  balance'[w] + Cardinality(T) <= Funds
  <2>1. CASE WalletOf[j] # w
    <3>1. balance'[w] = balance[w] /\ T \subseteq S
      BY <1>2, <1>4, <2>1 DEF Opens, Outstanding
    <3> QED BY <3>1, <1>3
  <2>2. CASE WalletOf[j] = w
    <3>1. balance'[w] = balance[w] - 1 /\ T \subseteq S \cup {j}
      BY <1>2, <1>4, <2>2 DEF Opens, Outstanding
    <3>2. /\ IsFiniteSet(S \cup {j})
          /\ Cardinality(S \cup {j}) \in {Cardinality(S), Cardinality(S) + 1}
      BY <1>1, FS_AddElement
    <3>3. Cardinality(T) <= Cardinality(S \cup {j})
      BY <3>1, <3>2, FS_Subset
    <3> HIDE DEF S, T
    <3> QED BY <1>1, <1>2, <3>1, <3>2, <3>3
  <2> QED BY <2>1, <2>2
<1>5. ASSUME NEW j \in Jobs, Closes(j)
      PROVE  balance'[w] + Cardinality(T) <= Funds
  <2>1. CASE WalletOf[j] # w
    <3>1. balance'[w] = balance[w] /\ T \subseteq S
      BY <1>2, <1>5, <2>1 DEF Closes, Outstanding
    <3> QED BY <3>1, <1>3
  <2>2. CASE WalletOf[j] = w
    <3>1. balance'[w] = balance[w] + 1 /\ T \subseteq S \ {j} /\ j \in S
      BY <1>2, <1>5, <2>2 DEF Closes, Outstanding
    <3>2. /\ IsFiniteSet(S \ {j})
          /\ Cardinality(S \ {j}) = Cardinality(S) - 1
      BY <1>1, <3>1, FS_RemoveElement
    <3>3. Cardinality(T) <= Cardinality(S \ {j})
      BY <3>1, <3>2, FS_Subset
    <3> HIDE DEF S, T
    <3> QED BY <1>1, <1>2, <3>1, <3>2, <3>3
  <2> QED BY <2>1, <2>2
<1>6. CASE NothingOpens
  <2>1. balance'[w] = balance[w] /\ T \subseteq S
    BY <1>6 DEF NothingOpens, Outstanding
  <2> QED BY <2>1, <1>3
<1> QED BY <1>4, <1>5, <1>6

(* Every step keeps the account of every wallet. *)
LEMMA LedgerInvStep ==
    ASSUME RefundInv, LedgerInv, [Next]_vars
    PROVE  LedgerInv'
<1>1. NothingOpens \/ \E j \in Jobs : Opens(j) \/ Closes(j)
  <2>1. CASE \E j \in Jobs : Handler(j)
    BY <2>1, HandlerAccounts
  <2>2. CASE UNCHANGED vars
    BY <2>2 DEF vars, NothingOpens, Open
  <2> QED BY <2>1, <2>2, OthersAccount DEF Next
<1>2. TypeInv
  BY DEF RefundInv
<1> QED BY <1>1, <1>2, AccountsKept, RecKeepsIntent DEF LedgerInv

(* Nothing is open in the beginning. *)
LEMMA LedgerInvInit ==
    ASSUME Init
    PROVE  LedgerInv
<1>1. \A w \in Wallets : Outstanding(w) = {}
  BY DEF Init, Outstanding, Open
<1>2. \A w \in Wallets : balance[w] = Funds
  BY DEF Init
<1>3. Cardinality({}) = 0
  BY FS_EmptySet
<1> QED BY <1>1, <1>2, <1>3, WithdrawalsAssumption DEF LedgerInv, Init, Resting

(* Balance and payouts of a wallet never exceed what it had, for any number *)
(* of requests, refunds, replays and restarts (debit before broadcast,      *)
(* idempotent credit, and no refund of what is paid but after a re-poll     *)
(* that raised).                                                            *)
THEOREM NoFundsMinted == Spec => []NothingMinted
<1>1. RefundInv /\ LedgerInv => NothingMinted
  <2> SUFFICES ASSUME RefundInv, LedgerInv, NEW w \in Wallets
               PROVE  balance[w] + Cardinality({j \in Jobs :
                                                  /\ WalletOf[j] = w /\ Paid(j)
                                                  /\ j \notin blind \cap refunds})
                        <= Funds
    BY DEF NothingMinted
  <2> DEFINE P == {j \in Jobs : /\ WalletOf[j] = w /\ Paid(j)
                                /\ j \notin blind \cap refunds}
  <2>1. P \subseteq Outstanding(w)
    BY DEF Outstanding, Open, Paid, RefundInv, JobFacts, NeverMined, Refundable
  <2>2. IsFiniteSet(Outstanding(w)) /\ Cardinality(Outstanding(w)) \in Nat
    BY WithdrawalsAssumption, FS_Subset, FS_CardinalityType DEF Outstanding
  <2>3. Cardinality(P) <= Cardinality(Outstanding(w)) /\ Cardinality(P) \in Nat
    BY <2>1, <2>2, FS_Subset, FS_CardinalityType
  <2>4. /\ balance[w] \in Int /\ Funds \in Nat
        /\ balance[w] + Cardinality(Outstanding(w)) <= Funds
    BY WithdrawalsAssumption DEF RefundInv, TypeInv, LedgerInv
  <2> HIDE DEF P
  <2>5. balance[w] + Cardinality(P) <= Funds
    BY <2>2, <2>3, <2>4
  <2> QED BY <2>5 DEF P
<1> QED BY RefundInvInit, RefundInvStep, LedgerInvInit, LedgerInvStep, <1>1, PTL DEF Spec

--------------------------------------------------------------------------------
(****************************************************************************)
(* TypeOK: the ranges.  No balance is negative, a transfer that may still   *)
(* be mined has a nonce within the bound, and what is mined was one.        *)
(****************************************************************************)
BalanceRange == \A w \in Wallets : balance[w] >= 0

(* Nonces stay within the bound. *)
NonceRange ==
    /\ \A j \in Jobs : /\ tx[j].nonce <= MaxNonce
                       /\ tx[j].status \in {"pool", "evicted"} => tx[j].nonce < MaxNonce
    /\ chainNonce <= MaxNonce

(* Restarts stay within the bound. *)
CrashRange == crashes \in 0 .. MaxCrashes

(* Only the debit takes from a balance, and only what is there. *)
LEMMA BalanceRangeStep ==
    ASSUME RefundInv, BalanceRange, [Next]_vars
    PROVE  BalanceRange'
<1>1. balance \in [Wallets -> Int] /\ WalletOf \in [Jobs -> Wallets]
  BY WithdrawalsAssumption DEF RefundInv, TypeInv
<1>2. ASSUME NEW j \in Jobs, Refund(j) PROVE BalanceRange'
  BY <1>1, <1>2 DEF Refund, BalanceRange
<1>3. ASSUME NEW j \in Jobs, Debit(j) PROVE BalanceRange'
  BY <1>1, <1>3 DEF Debit, BalanceRange
<1>4. ASSUME UNCHANGED balance PROVE BalanceRange'
  BY <1>4 DEF BalanceRange
<1>5. ASSUME NEW j \in Jobs, Handler(j) PROVE BalanceRange'
  BY <1>2, <1>3, <1>4, <1>5 DEF Handler, VerifySignature, ConsumeNonce, NonceUnknown,
     Send, SendMaybeLanded, SendRejected, ReceiptWait, InlineRefund, RecordPending
<1>6. CASE RecContinue
  <2>1. CASE ReconcilerRefund
    <3>1. rec.job \in Jobs /\ Refund(rec.job)
      BY <2>1 DEF ReconcilerRefund, RefundInv, TypeInv
    <3> QED BY <1>1, <3>1 DEF Refund, BalanceRange
  <2> QED BY <1>4, <1>6, <2>1 DEF RecContinue, ReadConfirmedNonce, RepollReceipt,
       RefundFailed, MarkResolved
<1> QED BY <1>4, <1>5, <1>6 DEF Next, Poll, PollIntent, Evict, Mine, OtherTransaction,
    Restart, vars

(* A transfer is signed below the bound, and mining takes its nonce. *)
LEMMA NonceRangeStep ==
    ASSUME RefundInv, NonceRange, [Next]_vars
    PROVE  NonceRange'
<1>1. /\ tx \in [Jobs -> [nonce : Nat, status : TxStatus]] /\ chainNonce \in Nat
      /\ MaxNonce \in Nat
  BY WithdrawalsAssumption DEF RefundInv, TypeInv
<1>2. ASSUME UNCHANGED <<tx, chainNonce>> PROVE NonceRange'
  BY <1>2 DEF NonceRange
<1>3. ASSUME NEW j \in Jobs, NEW status, Signed(j, status), UNCHANGED chainNonce
      PROVE  NonceRange'
  <2>1. PICK n \in 0 .. MaxNonce - 1 :
                tx' = [tx EXCEPT ![j] = [nonce |-> n, status |-> status]]
    BY <1>3 DEF Signed
  <2>2. n \in Nat /\ n < MaxNonce /\ n <= MaxNonce
    BY <1>1
  <2>3. tx'[j].nonce = n /\ \A i \in Jobs \ {j} : tx'[i] = tx[i]
    BY <1>1, <2>1
  <2> QED BY <1>3, <2>2, <2>3 DEF NonceRange
<1>4. ASSUME NEW j \in Jobs, Handler(j) PROVE NonceRange'
  BY <1>2, <1>3, <1>4 DEF Handler, VerifySignature, ConsumeNonce, Debit, NonceUnknown,
     Send, SendMaybeLanded, SendRejected, ReceiptWait, InlineRefund, RecordPending
<1>5. ASSUME NEW j \in Jobs, NEW status \in {"ok", "reverted"}, Mine(j, status)
      PROVE  NonceRange'
  <2>1. /\ tx[j].status \in {"pool", "evicted"} /\ tx[j].nonce = chainNonce
        /\ chainNonce' = chainNonce + 1
        /\ tx'[j].nonce = tx[j].nonce /\ tx'[j].status = status
        /\ \A i \in Jobs \ {j} : tx'[i] = tx[i]
    BY <1>1, <1>5 DEF Mine
  <2>2. chainNonce < MaxNonce
    BY <2>1 DEF NonceRange
  <2>3. chainNonce' <= MaxNonce
    BY <1>1, <2>1, <2>2
  <2> QED BY <2>1, <2>3 DEF NonceRange
<1>6. ASSUME NEW j \in Jobs, Evict(j) PROVE NonceRange'
  <2>1. /\ tx[j].status = "pool" /\ UNCHANGED chainNonce
        /\ tx'[j].nonce = tx[j].nonce
        /\ \A i \in Jobs \ {j} : tx'[i] = tx[i]
    BY <1>1, <1>6 DEF Evict
  <2> QED BY <2>1 DEF NonceRange
<1>7. CASE OtherTransaction
  BY <1>1, <1>7 DEF OtherTransaction, NonceRange
<1>8. CASE RecContinue
  BY <1>2, <1>8 DEF RecContinue, ReadConfirmedNonce, RepollReceipt, ReconcilerRefund,
     RefundFailed, MarkResolved, RecStep
<1> QED BY <1>2, <1>4, <1>5, <1>6, <1>7, <1>8 DEF Next, Poll, PollIntent, Restart, vars

(* Restarts are counted up to their bound. *)
LEMMA CrashRangeStep ==
    ASSUME CrashRange, [Next]_vars
    PROVE  CrashRange'
<1>1. CASE UNCHANGED crashes
  BY <1>1 DEF CrashRange
<1>2. CASE Restart
  BY <1>2, WithdrawalsAssumption DEF Restart, CrashRange
<1>3. Restart \/ UNCHANGED crashes
  BY DEF Next, Handler, VerifySignature, ConsumeNonce, Debit, NonceUnknown, Send,
     SendMaybeLanded, SendRejected, ReceiptWait, InlineRefund, RecordPending, Poll,
     PollIntent, Evict, Mine, OtherTransaction, RecContinue, ReadConfirmedNonce,
     RepollReceipt, ReconcilerRefund, RefundFailed, MarkResolved, RecStep, vars
<1> QED BY <1>1, <1>2, <1>3

(* Balances stay between zero and what the wallet had, and every other      *)
(* variable in its range, however often the bridge crashes and retries      *)
(* (the debit's check under the write lock, the idempotent credit).         *)
THEOREM WithdrawalTypes == Spec => []TypeOK
<1>1. Init => BalanceRange /\ NonceRange /\ CrashRange
  BY WithdrawalsAssumption DEF Init, BalanceRange, NonceRange, CrashRange
<1>2. ASSUME RefundInv, LedgerInv, BalanceRange, NonceRange, CrashRange
      PROVE  TypeOK
  <2>1. TypeInv
    BY <1>2 DEF RefundInv
  <2>2. ASSUME NEW w \in Wallets PROVE balance[w] \in 0 .. Funds
    <3>1. Cardinality(Outstanding(w)) \in Nat
      BY WithdrawalsAssumption, FS_Subset, FS_CardinalityType DEF Outstanding
    <3>2. /\ balance[w] \in Int /\ balance[w] >= 0 /\ Funds \in Nat
          /\ balance[w] + Cardinality(Outstanding(w)) <= Funds
      BY <1>2, <2>1, WithdrawalsAssumption DEF TypeInv, LedgerInv, BalanceRange
    <3> QED BY <3>1, <3>2
  <2>3. balance \in [Wallets -> 0 .. Funds]
    BY <2>1, <2>2 DEF TypeInv
  <2>4. tx \in [Jobs -> [nonce : 0 .. MaxNonce, status : TxStatus]]
    <3>1. ASSUME NEW j \in Jobs
          PROVE  tx[j] \in [nonce : 0 .. MaxNonce, status : TxStatus]
      <4>1. tx[j] \in [nonce : Nat, status : TxStatus]
        BY <2>1 DEF TypeInv
      <4>2. tx[j].nonce \in Nat /\ tx[j].nonce <= MaxNonce /\ MaxNonce \in Nat
        BY <1>2, <4>1, WithdrawalsAssumption DEF NonceRange
      <4>3. tx[j].nonce \in 0 .. MaxNonce
        BY <4>2
      <4> QED BY <4>1, <4>3
    <3> QED BY <2>1, <3>1 DEF TypeInv
  <2>5. chainNonce \in 0 .. MaxNonce
    BY <1>2, <2>1, WithdrawalsAssumption DEF TypeInv, NonceRange
  <2> QED BY <1>2, <2>1, <2>3, <2>4, <2>5 DEF TypeOK, TypeInv, CrashRange
<1> QED BY RefundInvInit, RefundInvStep, LedgerInvInit, LedgerInvStep, BalanceRangeStep,
    NonceRangeStep, CrashRangeStep, <1>1, <1>2, PTL DEF Spec
================================================================================
