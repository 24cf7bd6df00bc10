----------------------------- MODULE PaymentEscrow -----------------------------
(****************************************************************************)
(* The off-chain payment escrow (prsm/node/payment_escrow.py) over the      *)
(* node's ledger: create_escrow, release_escrow, release_escrow_split,      *)
(* refund_escrow, the cleanup sweep, and the orphan recovery of             *)
(* /admin/escrow/recover-orphans (prsm/node/api.py).                        *)
(*                                                                          *)
(* Requests, the job reaper and the sweep are coroutines that interleave at *)
(* every ledger call; a lock per job serializes them.  A ledger transfer is *)
(* atomic and may raise: for want of funds, over a rounded float, or with a *)
(* database error.  LocalLedger's refusals are ValueErrors, DAGLedger's are *)
(* not, and PaymentEscrow treats the two differently.  The records are in   *)
(* memory, the wallets in the database.                                     *)
(****************************************************************************)
EXTENDS Naturals, Sequences, FiniteSets, Functions

CONSTANTS
    Jobs,
    Tasks,          \* coroutines that call the escrow
    Sweeper,        \* the coroutine of periodic_cleanup
    Requester,      \* the node's own wallet
    Amount,         \* what every escrow locks
    Funds,          \* what the requester begins with
    Splits,         \* release plans: the amounts of their legs
    LedgerErrors,   \* how a transfer may raise: "ValueError", "other"
    MaxEscrows,     \* bound: escrows ever created
    MaxCrashes,     \* bound: restarts of the daemon
    NoJob

EscrowIds == 1 .. MaxEscrows
Callers == Tasks \cup {Sweeper}
Wallets == {Requester} \cup EscrowIds
Total == [split \in Splits |-> SumFunction(split)]

(* What the first k legs of a plan pay. *)
Prefix(split, k) == SumFunctionOnSet(split, 1 .. k)

ASSUME PaymentEscrowAssumption ==
    /\ Sweeper \notin Tasks
    /\ Requester \notin EscrowIds
    /\ Amount \in Nat \ {0}
    /\ Funds \in Nat
    /\ Splits \subseteq Seq(Nat \ {0}) \ {<<>>}
    /\ LedgerErrors \subseteq {"ValueError", "other"} /\ LedgerErrors # {}
    /\ MaxEscrows \in Nat
    /\ MaxCrashes \in Nat
    /\ NoJob \notin Jobs

VARIABLES
    balance,   \* the ledger
    escrows,   \* _escrows: [job, status, expired, due]
    op,        \* caller -> the call it is in
    sweep,     \* cleanup_expired_escrows: [at, todo, job]
    paid,      \* history: escrow -> what recipients have of it
    returned,  \* history: escrow -> what a refund or a remainder gave back
    recovered, \* history: escrow -> what the recovery took
    leaked,    \* history: escrow -> legs left with recipients of a failed release
    stranded,  \* history: released escrows whose remainder was not moved
    crashes

history == <<paid, returned, recovered>>
vars == <<balance, escrows, op, sweep, history, leaked, stranded, crashes>>

Escrow == [job : Jobs \cup {NoJob},
           status : {"none", "PENDING", "RELEASED", "REFUNDED", "lost"},
           expired : BOOLEAN, due : Nat]
NoEscrow == [job |-> NoJob, status |-> "none", expired |-> FALSE, due |-> 0]

(* A call: k legs of the split are paid, c of them compensated. *)
Call == [at : {"idle", "create", "legs", "compensate", "remainder", "refund"},
         job : Jobs \cup {NoJob}, e : EscrowIds \cup {0}, seen : Nat,
         split : Splits \cup {<<>>}, k : Nat, c : Nat]
Idle == [at |-> "idle", job |-> NoJob, e |-> 0, seen |-> 0, split |-> <<>>,
         k |-> 0, c |-> 0]
Resting == [at |-> "idle", todo |-> {}, job |-> NoJob]

TypeOK ==
    /\ balance \in [Wallets -> 0 .. Funds]
    /\ escrows \in [EscrowIds -> Escrow]
    /\ op \in [Callers -> Call]
    /\ sweep \in [at : {"idle", "check", "wait", "refund"}, todo : SUBSET EscrowIds,
                  job : Jobs \cup {NoJob}]
    /\ paid \in [EscrowIds -> 0 .. Amount]
    /\ returned \in [EscrowIds -> 0 .. Amount]
    /\ recovered \in [EscrowIds -> 0 .. Amount]
    /\ leaked \in [EscrowIds -> 0 .. Amount]
    /\ stranded \subseteq EscrowIds
    /\ crashes \in 0 .. MaxCrashes

Init ==
    /\ balance = [w \in Wallets |-> IF w = Requester THEN Funds ELSE 0]
    /\ escrows = [e \in EscrowIds |-> NoEscrow]
    /\ op = [t \in Callers |-> Idle]
    /\ sweep = Resting
    /\ paid = [e \in EscrowIds |-> 0]
    /\ returned = paid /\ recovered = paid /\ leaked = paid
    /\ stranded = {}
    /\ crashes = 0

--------------------------------------------------------------------------------
Status(e) == escrows[e].status
Created == {e \in EscrowIds : Status(e) # "none"}
Pending(j) == {e \in EscrowIds : escrows[e].job = j /\ Status(e) = "PENDING"}
First(S) == CHOOSE e \in S : \A f \in S : e <= f
Last(S) == CHOOSE e \in S : \A f \in S : f <= e

(* Defect: nothing serializes the calls of a job. *)
NoLock(j) == TRUE

(* _job_lock, held by a call of the job until it returns. *)
LockFree(j) == \A t \in Callers : op[t].at = "idle" \/ op[t].job # j

(* The ledger's transfer, with its own check under the write lock. *)
Transfer(from, to, a) ==
    /\ balance[from] >= a
    /\ balance' = [balance EXCEPT ![from] = @ - a, ![to] = @ + a]

(* A transfer to a recipient, and one back from it.  Recipients spend what  *)
(* they have as they like, so that their wallets are not tracked and any    *)
(* transfer from one may fail.                                              *)
TransferOut(e, a) ==
    /\ balance[e] >= a
    /\ balance' = [balance EXCEPT ![e] = @ - a]
    /\ paid' = [paid EXCEPT ![e] = @ + a]

TransferBack(e, a) ==
    /\ balance' = [balance EXCEPT ![e] = @ + a]
    /\ paid' = [paid EXCEPT ![e] = @ - a]

(* A call ends.  The sweep goes on with the next escrow it has found, or is *)
(* over for this time when there is none or the call raised.                *)
Returns(t, raised) ==
    /\ op' = [op EXCEPT ![t] = Idle]
    /\ sweep' = IF t # Sweeper THEN sweep
                ELSE IF raised \/ sweep.todo = {} THEN Resting
                ELSE [sweep EXCEPT !.at = "check", !.job = NoJob]

--------------------------------------------------------------------------------
(* Defect: a live escrow of the job is not looked for. *)
MayCreateAnyway(t, j) ==
    /\ op[t].at = "idle" /\ LockFree(j)
    /\ Cardinality(Created) < MaxEscrows
    /\ balance[Requester] >= Amount

(* create_escrow: a live escrow of the job is returned as it is, and a      *)
(* requester without the funds gets none.                                   *)
MayCreate(t, j) ==
    /\ op[t].at = "idle" /\ LockFree(j)
    /\ Pending(j) = {}
    /\ Cardinality(Created) < MaxEscrows
    /\ balance[Requester] >= Amount

BeginCreate(t, j) ==
    /\ MayCreate(t, j)
    /\ op' = [op EXCEPT ![t] = [Idle EXCEPT !.at = "create", !.job = j]]
    /\ UNCHANGED <<balance, escrows, sweep, history, leaked, stranded, crashes>>

(* The record is registered only when the transfer went through. *)
Create(t) ==
    /\ op[t].at = "create"
    /\ LET e == Cardinality(Created) + 1 IN
          \/ /\ e \in EscrowIds
             /\ Transfer(Requester, e, Amount)
             /\ escrows' = [escrows EXCEPT ![e] = [NoEscrow EXCEPT !.job = op[t].job,
                                                                    !.status = "PENDING"]]
          \/ UNCHANGED <<balance, escrows>>
    /\ Returns(t, FALSE)
    /\ UNCHANGED <<history, leaked, stranded, crashes>>

--------------------------------------------------------------------------------
(* release_escrow and release_escrow_split up to the first transfer: the    *)
(* job's first pending escrow, a total within it, and within its wallet.    *)
BeginRelease(t, j, split) ==
    /\ op[t].at = "idle" /\ LockFree(j)
    /\ Pending(j) # {}
    /\ LET e == First(Pending(j)) IN
       /\ Total[split] <= Amount
       /\ Total[split] <= balance[e]
       /\ op' = [op EXCEPT ![t] = [Idle EXCEPT !.at = "legs", !.job = j, !.e = e,
                                                !.seen = balance[e], !.split = split]]
    /\ UNCHANGED <<balance, escrows, sweep, history, leaked, stranded, crashes>>

(* The next leg is paid.  After the last one the escrow is RELEASED, and    *)
(* what is left goes back to the requester.                                 *)
PayLeg(t) ==
    /\ op[t].at = "legs"
    /\ LET c == op[t]
           leg == c.split[c.k + 1]
           last == c.k + 1 = Len(c.split)
       IN  /\ TransferOut(c.e, leg)
           /\ IF last
                 THEN escrows' = [escrows EXCEPT ![c.e].status = "RELEASED",
                                                 ![c.e].due = @ + Total[c.split]]
                 ELSE UNCHANGED escrows
           /\ IF last /\ c.seen = Total[c.split]
                 THEN Returns(t, FALSE)
                 ELSE /\ op' = [op EXCEPT ![t].k = @ + 1,
                                          ![t].at = IF last THEN "remainder" ELSE @]
                      /\ UNCHANGED sweep
    /\ UNCHANGED <<returned, recovered, leaked, stranded, crashes>>

(* Defect: the legs that went through are left as they are. *)
LegFailsForGood(t) ==
    /\ op[t].at = "legs"
    /\ Returns(t, FALSE)
    /\ UNCHANGED <<balance, escrows, history, leaked, stranded, crashes>>

(* A leg raises.  After a ValueError the legs that went through are taken   *)
(* back; any other exception leaves them as they are.                       *)
LegFails(t) ==
    /\ op[t].at = "legs"
    /\ \/ /\ "ValueError" \in LedgerErrors
          /\ op[t].k > 0
          /\ op' = [op EXCEPT ![t].at = "compensate"]
          /\ UNCHANGED <<sweep, leaked>>
       \/ /\ "ValueError" \in LedgerErrors
          /\ op[t].k = 0
          /\ Returns(t, FALSE)
          /\ UNCHANGED leaked
       \/ /\ "other" \in LedgerErrors
          /\ leaked' = [leaked EXCEPT ![op[t].e] = @ + Prefix(op[t].split, op[t].k)]
          /\ Returns(t, TRUE)
    /\ UNCHANGED <<balance, escrows, history, stranded, crashes>>

(* One leg is taken back, unless its recipient has spent it or the ledger   *)
(* raises: then it has leaked.  The escrow stays PENDING.                   *)
Compensate(t) ==
    /\ op[t].at = "compensate"
    /\ LET c == op[t]
           leg == c.split[c.c + 1]
       IN  /\ \/ TransferBack(c.e, leg) /\ UNCHANGED leaked
              \/ /\ leaked' = [leaked EXCEPT ![c.e] = @ + leg]
                 /\ UNCHANGED <<balance, paid>>
           /\ IF c.c + 1 = c.k
                 THEN Returns(t, FALSE)
                 ELSE op' = [op EXCEPT ![t].c = @ + 1] /\ UNCHANGED sweep
    /\ UNCHANGED <<escrows, returned, recovered, stranded, crashes>>

(* The remainder of a released escrow; a transfer that raises leaves it in  *)
(* the wallet.                                                              *)
Remainder(t) ==
    /\ op[t].at = "remainder"
    /\ LET c == op[t]
           rest == c.seen - Total[c.split]
       IN  \/ /\ Transfer(c.e, Requester, rest)
              /\ returned' = [returned EXCEPT ![c.e] = @ + rest]
              /\ UNCHANGED stranded
           \/ stranded' = stranded \cup {c.e} /\ UNCHANGED <<balance, returned>>
    /\ Returns(t, FALSE)
    /\ UNCHANGED <<escrows, paid, recovered, leaked, crashes>>

--------------------------------------------------------------------------------
(* refund_escrow up to the transfer, for a caller or for the sweep that     *)
(* waits for the job's lock.  Without a pending escrow a released one       *)
(* raises; a wallet that is empty needs no transfer.                        *)
MayRefund(t, j) ==
    /\ op[t].at = "idle" /\ LockFree(j)
    /\ t = Sweeper => sweep.at = "wait" /\ sweep.job = j

(* Defect: a wallet that lost a leg is not refunded. *)
BeginRefundWhole(t, j) ==
    /\ MayRefund(t, j)
    /\ Pending(j) # {}
    /\ LET e == First(Pending(j)) IN
       IF balance[e] = Amount
          THEN /\ op' = [op EXCEPT ![t] = [Idle EXCEPT !.at = "refund", !.job = j,
                                                       !.e = e, !.seen = balance[e]]]
               /\ sweep' = IF t = Sweeper THEN [sweep EXCEPT !.at = "refund"] ELSE sweep
          ELSE Returns(t, FALSE)
    /\ UNCHANGED <<balance, escrows, history, leaked, stranded, crashes>>

BeginRefund(t, j) ==
    /\ MayRefund(t, j)
    /\ Pending(j) # {}
    /\ LET e == First(Pending(j)) IN
       IF balance[e] > 0
          THEN /\ op' = [op EXCEPT ![t] = [Idle EXCEPT !.at = "refund", !.job = j,
                                                       !.e = e, !.seen = balance[e]]]
               /\ sweep' = IF t = Sweeper THEN [sweep EXCEPT !.at = "refund"] ELSE sweep
               /\ UNCHANGED escrows
          ELSE /\ escrows' = [escrows EXCEPT ![e].status = "REFUNDED"]
               /\ Returns(t, FALSE)
    /\ UNCHANGED <<balance, history, leaked, stranded, crashes>>

NothingToRefund(j) ==
    /\ MayRefund(Sweeper, j)
    /\ Pending(j) = {}
    /\ LET mine == {e \in Created : escrows[e].job = j /\ Status(e) # "lost"}
       IN  Returns(Sweeper, mine # {} /\ Status(Last(mine)) = "RELEASED")
    /\ UNCHANGED <<balance, escrows, history, leaked, stranded, crashes>>

Refund(t) ==
    /\ op[t].at = "refund"
    /\ LET c == op[t] IN
       /\ Transfer(c.e, Requester, c.seen)
       /\ returned' = [returned EXCEPT ![c.e] = @ + c.seen]
       /\ escrows' = [escrows EXCEPT ![c.e].status = "REFUNDED"]
    /\ Returns(t, FALSE)
    /\ UNCHANGED <<paid, recovered, leaked, stranded, crashes>>

RefundFails(t) ==
    /\ op[t].at = "refund"
    /\ \E error \in LedgerErrors : Returns(t, error = "other")
    /\ UNCHANGED <<balance, escrows, history, leaked, stranded, crashes>>

--------------------------------------------------------------------------------
(* default_timeout passes for a record. *)
Expire(e) ==
    /\ Status(e) = "PENDING" /\ ~escrows[e].expired
    /\ escrows' = [escrows EXCEPT ![e].expired = TRUE]
    /\ UNCHANGED <<balance, op, sweep, history, leaked, stranded, crashes>>

(* cleanup_expired_escrows goes over a copy of the records, oldest first,   *)
(* and does not yield before it calls refund_escrow for one that is still   *)
(* PENDING; there it waits for the job's lock.                              *)
Reap(S) ==
    LET live == {e \in S : Status(e) = "PENDING"}
    IN  IF live = {} THEN Resting
        ELSE [at |-> "wait", todo |-> live \ {First(live)}, job |-> escrows[First(live)].job]

(* What has timed out is judged by the time the sweep begins. *)
BeginSweep ==
    /\ sweep = Resting
    /\ sweep' = Reap({e \in EscrowIds : escrows[e].expired})
    /\ UNCHANGED <<balance, escrows, op, history, leaked, stranded, crashes>>

SweepCheck ==
    /\ sweep.at = "check"
    /\ sweep' = Reap(sweep.todo)
    /\ UNCHANGED <<balance, escrows, op, history, leaked, stranded, crashes>>

--------------------------------------------------------------------------------
(* recover_orphan_escrows moves the balance it has read of an escrow wallet *)
(* to the requester, who locked it.  Neither a record nor a lock is looked  *)
(* at: wallets of live escrows are taken too, in the middle of a call or    *)
(* between two.  read may be stale: more than is left raises, and less is   *)
(* what the wallet held before a leg came back.                             *)
RecoverWallet(e, read) ==
    /\ Transfer(e, Requester, read)
    /\ recovered' = [recovered EXCEPT ![e] = @ + read]
    /\ UNCHANGED <<escrows, op, sweep, paid, returned, leaked, stranded, crashes>>

(* The daemon dies: records and calls are gone, wallets stay. *)
Restart ==
    /\ crashes < MaxCrashes
    /\ crashes' = crashes + 1
    /\ leaked' = [e \in EscrowIds |-> IF Status(e) = "PENDING" THEN paid[e] ELSE leaked[e]]
    /\ stranded' = stranded \cup {op[t].e : t \in {s \in Callers : op[s].at = "remainder"}}
    /\ escrows' = [e \in EscrowIds |->
                     IF Status(e) = "PENDING" THEN [escrows[e] EXCEPT !.status = "lost"]
                     ELSE escrows[e]]
    /\ op' = [t \in Callers |-> Idle]
    /\ sweep' = Resting
    /\ UNCHANGED <<balance, history>>

--------------------------------------------------------------------------------
Proceed(t) ==
    \/ Create(t) \/ PayLeg(t) \/ LegFails(t) \/ Compensate(t) \/ Remainder(t)
    \/ Refund(t) \/ RefundFails(t)

SweepWaits == \E j \in Jobs : BeginRefund(Sweeper, j) \/ NothingToRefund(j)

Next ==
    \/ \E t \in Tasks, j \in Jobs :
          \/ BeginCreate(t, j) \/ BeginRefund(t, j)
          \/ \E split \in Splits : BeginRelease(t, j, split)
    \/ \E t \in Callers : Proceed(t)
    \/ BeginSweep \/ SweepCheck \/ SweepWaits
    \/ \E e \in EscrowIds : Expire(e) \/ \E read \in 1 .. Amount : RecoverWallet(e, read)
    \/ Restart

Spec == Init /\ [][Next]_vars

(* Coroutines run on, the sweep comes round again, waiters of an            *)
(* asyncio.Lock are served in order, and a ledger that refuses a refund     *)
(* accepts it some time later.                                              *)
FairSpec ==
    /\ Spec
    /\ \A t \in Callers : WF_vars(Proceed(t))
    /\ WF_vars(BeginSweep \/ SweepCheck) /\ SF_vars(SweepWaits)
    /\ SF_vars(Refund(Sweeper))

--------------------------------------------------------------------------------
(****************************************************************************)
(* Properties                                                               *)
(****************************************************************************)
(* No call is in the escrow. *)
Quiet(e) == \A t \in Callers : op[t].e # e

(* Between calls every unit of an escrow is where its record says.          *)
(* Recipients have exactly the released split, and beyond it only legs that *)
(* a failed release left with them; nothing else has gone out of a pending  *)
(* wallet but to the recovery; a refunded one is empty, and so is a         *)
(* released one unless its remainder raised.  This holds over concurrent    *)
(* releases, refunds, sweeps, recoveries of live wallets, legs that fail    *)
(* half way and restarts (_release_escrow_split_locked and                  *)
(* _refund_escrow_locked under _job_lock).                                  *)
EscrowAccounted ==
    \A e \in Created : Quiet(e) =>
        /\ paid[e] = escrows[e].due + leaked[e]
        /\ balance[e] + paid[e] + returned[e] + recovered[e] = Amount
        /\ Status(e) \in {"PENDING", "lost"} => returned[e] = 0
        /\ Status(e) = "REFUNDED" => balance[e] = 0
        /\ Status(e) = "RELEASED" /\ e \notin stranded => balance[e] = 0

(* A job never has two live escrows, so a repeated create cannot charge the *)
(* requester twice (create_escrow's check under the lock).                  *)
OneLiveEscrow == \A j \in Jobs : Cardinality(Pending(j)) <= 1

(* An escrow that was released is never refunded, nor the reverse, however  *)
(* a late result, a cancellation and the timeout race (the state guards     *)
(* with _job_lock).                                                         *)
FinalizedOnce ==
    [][\A e \in EscrowIds :
          Status(e) \in {"RELEASED", "REFUNDED"} => escrows'[e].status = Status(e)]_vars

(* Every escrow that times out is settled, over sweeps that are cut short   *)
(* by an exception and locks that are taken when the sweep comes            *)
(* (periodic_cleanup).                                                      *)
ExpiredSettles ==
    \A e \in EscrowIds :
        (Status(e) = "PENDING" /\ escrows[e].expired) ~> Status(e) # "PENDING"
================================================================================
