-------------------------- MODULE PaymentEscrowProofs --------------------------
(****************************************************************************)
(* Theorems about PaymentEscrow, for any number of jobs, callers, escrows   *)
(* and restarts, any release plans and any errors of the ledger.            *)
(*                                                                          *)
(* Neither OneLiveEscrow nor FinalizedOnce is inductive.  EscrowInv adds    *)
(* what a call has established before it waits for the ledger and relies on *)
(* afterwards: it is alone in its job, its job has no live escrow while it  *)
(* creates one, and the escrow it pays from or refunds is still PENDING.    *)
(*                                                                          *)
(* EscrowAccounted needs more: between two legs an escrow is neither whole nor *)
(* settled.  MoneyInv says, for each escrow, how its amount is spread while *)
(* a call works on it: recipients have the legs paid so far less those      *)
(* taken back.                                                              *)
(****************************************************************************)
EXTENDS PaymentEscrow, Integers, FiniteSetTheorems, SumTheorems, TLAPS

(* The fields of a record. *)
EscrowFields == {"job", "status", "expired", "due"}

(* The fields of a call. *)
CallFields == {"at", "job", "e", "seen", "split", "k", "c"}

(* Records and calls have their fields. *)
Shape ==
    /\ DOMAIN escrows = EscrowIds
    /\ \A e \in EscrowIds : DOMAIN escrows[e] = EscrowFields
    /\ DOMAIN op = Callers
    /\ \A t \in Callers : DOMAIN op[t] = CallFields

(* Escrows are numbered in the order of their creation. *)
Numbered ==
    \E n \in 0 .. MaxEscrows : \A e \in EscrowIds : Status(e) # "none" <=> e <= n

(* A PENDING escrow of job j. *)
Live(e, j) == escrows[e].job = j /\ Status(e) = "PENDING"

(* The calls of one job are serialized. *)
Serial ==
    \A t, u \in Callers : op[t].at # "idle" /\ op[u].at # "idle" /\ op[t].job = op[u].job
                          => t = u

(* What a call found before it waited for the ledger is still so. *)
CallFacts(t) ==
    /\ op[t].at = "create" => \A e \in EscrowIds : ~Live(e, op[t].job)
    /\ op[t].at \in {"legs", "compensate", "refund"} =>
          op[t].e \in EscrowIds /\ Live(op[t].e, op[t].job)

(* A job has at most one PENDING escrow. *)
OneLive ==
    \A e, f \in EscrowIds : Status(e) = "PENDING" /\ Live(f, escrows[e].job) => e = f

(* The inductive invariant of the records. *)
EscrowInv ==
    Shape /\ Numbered /\ Serial /\ OneLive /\ \A t \in Callers : CallFacts(t)

(* What FinalizedOnce says of a step. *)
Final ==
    \A e \in EscrowIds :
        Status(e) \in {"RELEASED", "REFUNDED"} => escrows'[e].status = Status(e)

(* No record and no call. *)
LEMMA EscrowInvInit ==
    ASSUME Init
    PROVE  EscrowInv
<1>1. Shape
  BY DEF Shape, EscrowFields, CallFields, Init, NoEscrow, Idle
<1>2. Numbered
  <2>1. \A e \in EscrowIds : Status(e) = "none" /\ ~(e <= 0)
    BY PaymentEscrowAssumption DEF Init, NoEscrow, EscrowIds, Status
  <2>2. 0 \in 0 .. MaxEscrows
    BY PaymentEscrowAssumption
  <2> QED BY <2>1, <2>2 DEF Numbered
<1>3. Serial /\ OneLive /\ \A t \in Callers : CallFacts(t)
  BY DEF Init, NoEscrow, Idle, Serial, OneLive, CallFacts, Status
<1> QED BY <1>1, <1>2, <1>3 DEF EscrowInv

(* A job has at most one pending escrow, and First finds it. *)
LEMMA FirstPending ==
    ASSUME OneLive, NEW j, Pending(j) # {}
    PROVE  First(Pending(j)) \in EscrowIds /\ Live(First(Pending(j)), j)
<1>1. PICK e \in EscrowIds : Live(e, j)
  BY DEF Pending, Live, Status
<1>2. Pending(j) = {e}
  BY <1>1 DEF Pending, Live, OneLive
<1>3. e <= e
  BY PaymentEscrowAssumption DEF EscrowIds
<1>4. First(Pending(j)) = e
  BY <1>2, <1>3 DEF First
<1> QED BY <1>1, <1>4

(* The next number is free. *)
LEMMA NextFree ==
    ASSUME Numbered, NEW e, e = Cardinality(Created) + 1, e \in EscrowIds
    PROVE  /\ Status(e) = "none"
           /\ \A f \in EscrowIds : Status(f) # "none" <=> f <= e - 1
<1>1. PICK n \in 0 .. MaxEscrows : \A f \in EscrowIds : Status(f) # "none" <=> f <= n
  BY DEF Numbered
<1>2. Created = 1 .. n
  BY <1>1, PaymentEscrowAssumption DEF Created, EscrowIds
<1>3. Cardinality(Created) = n
  BY <1>2, FS_Interval, PaymentEscrowAssumption
<1> QED BY <1>1, <1>3, PaymentEscrowAssumption DEF EscrowIds

(* A step that leaves the records alone and ends t's call, or begins one    *)
(* whose facts hold while the job's lock is free.                           *)
LEMMA CallStep ==
    ASSUME EscrowInv, NEW t \in Callers, UNCHANGED escrows,
           \/ op' = [op EXCEPT ![t] = Idle]
           \/ /\ CallFacts(t)'
              /\ \E c : /\ op' = [op EXCEPT ![t] = c]
                        /\ DOMAIN c = CallFields
                        /\ \/ op[t].at # "idle" /\ c.job = op[t].job
                           \/ LockFree(c.job)
    PROVE  EscrowInv' /\ Final
<1>1. Shape'
  BY DEF EscrowInv, Shape, EscrowFields, CallFields, Idle
<1>2. Numbered' /\ OneLive' /\ Final
  BY DEF EscrowInv, Numbered, OneLive, Live, Status, Final
<1>3. Serial'
  BY DEF EscrowInv, Shape, Serial, Idle, LockFree
<1>4. ASSUME NEW u \in Callers PROVE CallFacts(u)'
  <2>1. CASE u # t
    <3>1. op'[u] = op[u]
      BY <2>1 DEF EscrowInv, Shape
    <3> QED BY <3>1 DEF EscrowInv, CallFacts, Live, Status
  <2>2. CASE u = t /\ op' = [op EXCEPT ![t] = Idle]
    BY <2>2 DEF EscrowInv, Shape, CallFacts, Idle
  <2>3. CASE u = t /\ CallFacts(t)'
    BY <2>3
  <2> QED BY <2>1, <2>2, <2>3
<1> QED BY <1>1, <1>2, <1>3, <1>4 DEF EscrowInv

(* A step that settles a pending escrow e: t's call, which is alone in the  *)
(* job of e, ends or goes on to the remainder.                              *)
LEMMA SettleStep ==
    ASSUME EscrowInv, NEW t \in Callers, NEW e \in EscrowIds, NEW rec,
           \/ op[t].at \in {"legs", "refund"} /\ op[t].e = e
           \/ op[t].at = "idle" /\ LockFree(escrows[e].job) /\ Status(e) = "PENDING",
           escrows' = [escrows EXCEPT ![e] = rec],
           DOMAIN rec = EscrowFields, rec.job = escrows[e].job,
           rec.status \in {"RELEASED", "REFUNDED"},
           \/ op' = [op EXCEPT ![t] = Idle]
           \/ \E c : /\ op' = [op EXCEPT ![t] = c]
                     /\ DOMAIN c = CallFields
                     /\ c.at = "remainder" /\ c.job = op[t].job
                     /\ op[t].at # "idle"
    PROVE  EscrowInv' /\ Final
<1>1. Shape'
  BY DEF EscrowInv, Shape, EscrowFields, CallFields, Idle
<1>2. Status(e) = "PENDING" /\ \A f \in EscrowIds \ {e} : escrows'[f] = escrows[f]
  BY DEF EscrowInv, CallFacts, Live, Shape
<1>3. escrows'[e].status = rec.status /\ escrows'[e].job = escrows[e].job
  BY DEF EscrowInv, Shape
<1>4. Numbered' /\ OneLive' /\ Final
  BY <1>2, <1>3 DEF EscrowInv, Numbered, OneLive, Live, Status, Final
<1>5. Serial'
  BY DEF EscrowInv, Shape, Serial, Idle
<1>6. ASSUME NEW u \in Callers PROVE CallFacts(u)'
  <2>1. CASE u = t
    BY <2>1 DEF EscrowInv, Shape, CallFacts, Idle
  <2>2. CASE u # t
    <3>1. op'[u] = op[u]
      BY <2>2 DEF EscrowInv, Shape
    <3>2. op[u].at # "idle" => op[u].job # escrows[e].job
      BY <2>2 DEF EscrowInv, Serial, CallFacts, Live, LockFree
    <3> QED BY <3>1, <3>2, <1>2, <1>3 DEF EscrowInv, CallFacts, Live, Status
  <2> QED BY <2>1, <2>2
<1> QED BY <1>1, <1>4, <1>5, <1>6 DEF EscrowInv

--------------------------------------------------------------------------------
(* create_escrow registers a record for a job that has no live one, under   *)
(* the job's lock.                                                          *)
LEMMA CreateKeeps ==
    ASSUME EscrowInv, NEW t \in Callers, Create(t)
    PROVE  EscrowInv' /\ Final
<1> DEFINE e == Cardinality(Created) + 1
<1> DEFINE rec == [NoEscrow EXCEPT !.job = op[t].job, !.status = "PENDING"]
<1>1. CASE UNCHANGED escrows
  BY <1>1, CallStep DEF Create, Returns
<1>2. CASE e \in EscrowIds /\ escrows' = [escrows EXCEPT ![e] = rec]
  <2>1. /\ Status(e) = "none"
        /\ \A f \in EscrowIds : Status(f) # "none" <=> f <= e - 1
    BY <1>2, NextFree DEF EscrowInv
  <2>0. DOMAIN rec = EscrowFields /\ rec.job = op[t].job /\ rec.status = "PENDING"
    BY DEF NoEscrow, EscrowFields
  <2>2. op' = [op EXCEPT ![t] = Idle] /\ op[t].at = "create"
    BY DEF Create, Returns
  <2> HIDE DEF e, rec
  <2>3. Shape'
    BY <1>2, <2>0, <2>2 DEF EscrowInv, Shape, CallFields, Idle
  <2>4. /\ \A f \in EscrowIds \ {e} : escrows'[f] = escrows[f]
        /\ escrows'[e].status = "PENDING" /\ escrows'[e].job = op[t].job
    BY <1>2, <2>0 DEF EscrowInv, Shape
  <2>5. Numbered'
    <3>1. e \in 0 .. MaxEscrows /\ EscrowIds \subseteq Nat /\ e \in Nat
      BY <1>2, PaymentEscrowAssumption DEF EscrowIds
    <3>2. \A f \in EscrowIds : escrows'[f].status # "none" <=> f <= e
      BY <2>1, <2>4, <3>1 DEF Status
    <3> QED BY <3>1, <3>2 DEF Numbered, Status
  <2>6. Final
    BY <2>1, <2>4 DEF Final, Status
  <2>7. OneLive'
    BY <2>2, <2>4 DEF EscrowInv, OneLive, CallFacts, Live, Status
  <2>8. Serial'
    BY <2>2 DEF EscrowInv, Shape, Serial, Idle
  <2>9. ASSUME NEW u \in Callers PROVE CallFacts(u)'
    <3>1. CASE u = t
      BY <2>2, <3>1 DEF EscrowInv, Shape, CallFacts, Idle
    <3>2. CASE u # t
      <4>1. op'[u] = op[u]
        BY <2>2, <3>2 DEF EscrowInv, Shape
      <4>2. op[u].at # "idle" => op[u].job # op[t].job
        BY <2>2, <3>2 DEF EscrowInv, Serial
      <4> QED BY <2>1, <2>4, <4>1, <4>2 DEF EscrowInv, CallFacts, Live, Status
    <3> QED BY <3>1, <3>2
  <2> QED BY <2>3, <2>5, <2>6, <2>7, <2>8, <2>9 DEF EscrowInv
<1> QED BY <1>1, <1>2 DEF Create

(* A call that begins has what its facts ask for. *)
LEMMA BeginKeeps ==
    ASSUME EscrowInv, NEW t \in Callers, NEW j \in Jobs,
           \/ BeginCreate(t, j)
           \/ \E split \in Splits : BeginRelease(t, j, split)
           \/ BeginRefund(t, j)
    PROVE  EscrowInv' /\ Final
<1>1. CASE BeginCreate(t, j)
  <2> DEFINE c == [Idle EXCEPT !.at = "create", !.job = j]
  <2>0. DOMAIN c = CallFields /\ c.at = "create" /\ c.job = j
    BY DEF Idle, CallFields
  <2>1. /\ op' = [op EXCEPT ![t] = c] /\ UNCHANGED escrows
        /\ LockFree(j) /\ Pending(j) = {}
    BY <1>1 DEF BeginCreate, MayCreate
  <2> HIDE DEF c
  <2>2. op'[t] = c
    BY <2>1 DEF EscrowInv, Shape
  <2>3. \A e \in EscrowIds : ~Live(e, j)
    BY <2>1 DEF Pending, Live
  <2>4. CallFacts(t)'
    BY <2>0, <2>1, <2>2, <2>3 DEF CallFacts, Live, Status
  <2> QED BY <2>0, <2>1, <2>2, <2>4, CallStep
<1>2. ASSUME NEW split \in Splits, BeginRelease(t, j, split)
      PROVE  EscrowInv' /\ Final
  <2> DEFINE e == First(Pending(j))
             c == [Idle EXCEPT !.at = "legs", !.job = j, !.e = e,
                               !.seen = balance[e], !.split = split]
  <2>0. DOMAIN c = CallFields /\ c.at = "legs" /\ c.job = j /\ c.e = e
    BY DEF Idle, CallFields
  <2>1. /\ op' = [op EXCEPT ![t] = c] /\ UNCHANGED escrows
        /\ LockFree(j) /\ Pending(j) # {}
    BY <1>2 DEF BeginRelease
  <2>2. e \in EscrowIds /\ Live(e, j)
    BY <2>1, FirstPending DEF EscrowInv
  <2> HIDE DEF c, e
  <2>3. op'[t] = c
    BY <2>1 DEF EscrowInv, Shape
  <2>4. CallFacts(t)'
    BY <2>0, <2>1, <2>2, <2>3 DEF CallFacts, Live, Status
  <2> QED BY <2>0, <2>1, <2>3, <2>4, CallStep
<1>3. CASE BeginRefund(t, j)
  <2> DEFINE e == First(Pending(j))
             c == [Idle EXCEPT !.at = "refund", !.job = j, !.e = e, !.seen = balance[e]]
             rec == [escrows[e] EXCEPT !.status = "REFUNDED"]
  <2>0. DOMAIN c = CallFields /\ c.at = "refund" /\ c.job = j /\ c.e = e
    BY DEF Idle, CallFields
  <2>1. /\ op[t].at = "idle" /\ LockFree(j) /\ Pending(j) # {}
        /\ \/ op' = [op EXCEPT ![t] = c] /\ UNCHANGED escrows
           \/ op' = [op EXCEPT ![t] = Idle] /\ escrows' = [escrows EXCEPT ![e] = rec]
    BY <1>3 DEF BeginRefund, MayRefund, Returns
  <2>2. e \in EscrowIds /\ Live(e, j)
    BY <2>1, FirstPending DEF EscrowInv
  <2>3. /\ DOMAIN rec = EscrowFields /\ rec.job = escrows[e].job
        /\ rec.status = "REFUNDED"
    BY <2>2 DEF EscrowInv, Shape, EscrowFields
  <2> HIDE DEF c, e, rec
  <2>4. CASE op' = [op EXCEPT ![t] = c] /\ UNCHANGED escrows
    <3>1. op'[t] = c
      BY <2>4 DEF EscrowInv, Shape
    <3>2. CallFacts(t)'
      BY <2>0, <2>2, <2>4, <3>1 DEF CallFacts, Live, Status
    <3> QED BY <2>0, <2>1, <2>4, <3>1, <3>2, CallStep
  <2>5. CASE op' = [op EXCEPT ![t] = Idle] /\ escrows' = [escrows EXCEPT ![e] = rec]
    <3>1. LockFree(escrows[e].job) /\ Status(e) = "PENDING"
      BY <2>1, <2>2 DEF Live
    <3> QED BY <2>1, <2>2, <2>3, <2>5, <3>1, SettleStep
  <2> QED BY <2>1, <2>4, <2>5
<1> QED BY <1>1, <1>2, <1>3

(* A call that goes on leaves its escrow PENDING, or settles it, or has     *)
(* settled it (release_escrow_split and refund_escrow after their awaits).  *)
LEMMA ProceedKeeps ==
    ASSUME EscrowInv, NEW t \in Callers, Proceed(t)
    PROVE  EscrowInv' /\ Final
<1>1. CASE Create(t)
  BY <1>1, CreateKeeps
<1>2. CASE PayLeg(t)
  <2> DEFINE e == op[t].e
             last == op[t].k + 1 = Len(op[t].split)
             rec == [escrows[e] EXCEPT !.status = "RELEASED", !.due = @ + Total[op[t].split]]
             c == [op[t] EXCEPT !.k = @ + 1, !.at = IF last THEN "remainder" ELSE @]
  <2>1. op[t].at = "legs" /\ e \in EscrowIds /\ Live(e, op[t].job)
    BY <1>2 DEF PayLeg, EscrowInv, CallFacts
  <2>2. /\ DOMAIN rec = EscrowFields /\ rec.job = escrows[e].job
        /\ rec.status = "RELEASED"
    BY <2>1 DEF EscrowInv, Shape, EscrowFields
  <2>3. /\ DOMAIN c = CallFields /\ c.job = op[t].job /\ c.e = e
        /\ c.at = IF last THEN "remainder" ELSE "legs"
    BY <2>1 DEF EscrowInv, Shape, CallFields
  <2>4. /\ IF last THEN escrows' = [escrows EXCEPT ![e] = rec] ELSE UNCHANGED escrows
        /\ \/ last /\ op' = [op EXCEPT ![t] = Idle]
           \/ op' = [op EXCEPT ![t] = c]
    BY <1>2 DEF PayLeg, Returns
  <2> HIDE DEF e, rec, c, last
  <2>5. CASE last
    <3>1. op[t].e = e
      BY DEF e
    <3> QED BY <2>1, <2>2, <2>3, <2>4, <2>5, <3>1, SettleStep
  <2>6. CASE ~last
    <3>1. op'[t] = c
      BY <2>4, <2>6 DEF EscrowInv, Shape
    <3>2. CallFacts(t)'
      BY <2>1, <2>3, <2>4, <2>6, <3>1 DEF CallFacts, Live, Status
    <3> QED BY <2>1, <2>3, <2>4, <2>6, <3>2, CallStep
  <2> QED BY <2>5, <2>6
<1>3. CASE LegFails(t)
  <2> DEFINE c == [op[t] EXCEPT !.at = "compensate"]
  <2>1. /\ op[t].at = "legs" /\ UNCHANGED escrows
        /\ op' = [op EXCEPT ![t] = Idle] \/ op' = [op EXCEPT ![t] = c]
    BY <1>3 DEF LegFails, Returns
  <2>2. DOMAIN c = CallFields /\ c.job = op[t].job /\ c.e = op[t].e /\ c.at = "compensate"
    BY DEF EscrowInv, Shape, CallFields
  <2> HIDE DEF c
  <2>3. CASE op' = [op EXCEPT ![t] = c]
    <3>1. op'[t] = c
      BY <2>3 DEF EscrowInv, Shape
    <3>2. CallFacts(t)'
      BY <2>1, <2>2, <3>1 DEF EscrowInv, CallFacts, Live, Status
    <3> QED BY <2>1, <2>2, <2>3, <3>2, CallStep
  <2> QED BY <2>1, <2>3, CallStep
<1>4. CASE Compensate(t)
  <2> DEFINE c == [op[t] EXCEPT !.c = @ + 1]
  <2>1. /\ op[t].at = "compensate" /\ UNCHANGED escrows
        /\ op' = [op EXCEPT ![t] = Idle] \/ op' = [op EXCEPT ![t] = c]
    BY <1>4 DEF Compensate, Returns
  <2>2. DOMAIN c = CallFields /\ c.job = op[t].job /\ c.e = op[t].e /\ c.at = op[t].at
    BY DEF EscrowInv, Shape, CallFields
  <2> HIDE DEF c
  <2>3. CASE op' = [op EXCEPT ![t] = c]
    <3>1. op'[t] = c
      BY <2>3 DEF EscrowInv, Shape
    <3>2. CallFacts(t)'
      BY <2>1, <2>2, <3>1 DEF EscrowInv, CallFacts, Live, Status
    <3> QED BY <2>1, <2>2, <2>3, <3>2, CallStep
  <2> QED BY <2>1, <2>3, CallStep
<1>5. CASE Remainder(t) \/ RefundFails(t)
  BY <1>5, CallStep DEF Remainder, RefundFails, Returns
<1>6. CASE Refund(t)
  <2> DEFINE e == op[t].e
             rec == [escrows[e] EXCEPT !.status = "REFUNDED"]
  <2>1. op[t].at = "refund" /\ e \in EscrowIds
    BY <1>6 DEF Refund, EscrowInv, CallFacts
  <2>2. /\ DOMAIN rec = EscrowFields /\ rec.job = escrows[e].job
        /\ rec.status = "REFUNDED"
    BY <2>1 DEF EscrowInv, Shape, EscrowFields
  <2>3. escrows' = [escrows EXCEPT ![e] = rec] /\ op' = [op EXCEPT ![t] = Idle]
    BY <1>6 DEF Refund, Returns
  <2>4. op[t].e = e
    OBVIOUS
  <2> HIDE DEF e, rec
  <2> QED BY <2>1, <2>2, <2>3, <2>4, SettleStep
<1> QED BY <1>1, <1>2, <1>3, <1>4, <1>5, <1>6 DEF Proceed

(* The passing of a record's timeout changes nothing the calls rely on. *)
LEMMA ExpireKeeps ==
    ASSUME EscrowInv, NEW x \in EscrowIds, Expire(x)
    PROVE  EscrowInv' /\ Final
<1>1. /\ escrows' = [escrows EXCEPT ![x].expired = TRUE]
      /\ UNCHANGED op
  BY DEF Expire
<1>2. /\ DOMAIN escrows' = EscrowIds
      /\ \A e \in EscrowIds : /\ DOMAIN escrows'[e] = EscrowFields
                              /\ escrows'[e].job = escrows[e].job
                              /\ escrows'[e].status = escrows[e].status
  BY <1>1 DEF EscrowInv, Shape, EscrowFields
<1>3. Shape'
  BY <1>1, <1>2 DEF EscrowInv, Shape
<1>4. Numbered' /\ OneLive' /\ Final
  BY <1>2 DEF EscrowInv, Numbered, OneLive, Live, Status, Final
<1>5. Serial' /\ \A t \in Callers : CallFacts(t)'
  BY <1>1, <1>2 DEF EscrowInv, Serial, CallFacts, Live, Status
<1> QED BY <1>3, <1>4, <1>5 DEF EscrowInv

(* A restart forgets the pending records and every call. *)
LEMMA RestartKeeps ==
    ASSUME EscrowInv, Restart
    PROVE  EscrowInv' /\ Final
<1>1. /\ DOMAIN escrows' = EscrowIds
      /\ \A e \in EscrowIds :
            /\ DOMAIN escrows'[e] = EscrowFields
            /\ escrows'[e].status = IF Status(e) = "PENDING" THEN "lost" ELSE Status(e)
  BY DEF Restart, EscrowInv, Shape, EscrowFields, Status
<1>2. DOMAIN op' = Callers /\ \A t \in Callers : op'[t] = Idle
  BY DEF Restart
<1>3. DOMAIN Idle = CallFields /\ Idle.at = "idle"
  BY DEF Idle, CallFields
<1>4. Shape'
  BY <1>1, <1>2, <1>3 DEF Shape
<1>5. Numbered'
  BY <1>1 DEF EscrowInv, Numbered, Status
<1>6. OneLive' /\ Final
  BY <1>1 DEF OneLive, Live, Status, Final
<1>7. Serial' /\ \A t \in Callers : CallFacts(t)'
  BY <1>2, <1>3 DEF Serial, CallFacts
<1> QED BY <1>4, <1>5, <1>6, <1>7 DEF EscrowInv

(* Every step keeps the invariant and what is final. *)
LEMMA NextKeeps ==
    ASSUME EscrowInv, [Next]_vars
    PROVE  EscrowInv' /\ Final
<1>1. Sweeper \in Callers /\ Tasks \subseteq Callers
  BY DEF Callers
<1>2. ASSUME UNCHANGED <<escrows, op>>
      PROVE  EscrowInv' /\ Final
  BY <1>2 DEF EscrowInv, Shape, Numbered, Serial, OneLive, CallFacts, Live, Status, Final
<1>3. ASSUME NEW t \in Callers, NEW j \in Jobs,
             \/ BeginCreate(t, j) \/ BeginRefund(t, j)
             \/ \E split \in Splits : BeginRelease(t, j, split)
      PROVE  EscrowInv' /\ Final
  BY <1>3, BeginKeeps
<1>4. ASSUME NEW j \in Jobs, NothingToRefund(j)
      PROVE  EscrowInv' /\ Final
  <2>1. op' = [op EXCEPT ![Sweeper] = Idle] /\ UNCHANGED escrows
    BY <1>4 DEF NothingToRefund, Returns
  <2> QED BY <1>1, <2>1, CallStep
<1>5. CASE BeginSweep \/ SweepCheck
  BY <1>5, <1>2 DEF BeginSweep, SweepCheck
<1>6. CASE SweepWaits
  BY <1>6, <1>1, <1>3, <1>4 DEF SweepWaits
<1>7. CASE \E e \in EscrowIds : Expire(e) \/ \E read \in 1 .. Amount : RecoverWallet(e, read)
  BY <1>7, <1>2, ExpireKeeps DEF RecoverWallet
<1>8. CASE UNCHANGED vars
  BY <1>8, <1>2 DEF vars
<1> QED BY <1>1, <1>3, <1>5, <1>6, <1>7, <1>8, ProceedKeeps, RestartKeeps DEF Next

(* The invariant holds in every behaviour. *)
LEMMA EscrowInvAlways == Spec => []EscrowInv
<1>1. Init => EscrowInv
  BY EscrowInvInit
<1>2. EscrowInv /\ [Next]_vars => EscrowInv'
  BY NextKeeps
<1> QED BY <1>1, <1>2, PTL DEF Spec

(* However creates, releases, refunds and sweeps interleave and whatever    *)
(* the ledger raises, a job never has two live escrows (create_escrow's     *)
(* check under _job_lock).                                                  *)
THEOREM JobsPayOnce == Spec => []OneLiveEscrow
<1>1. EscrowInv => OneLiveEscrow
  <2> SUFFICES ASSUME EscrowInv, NEW j \in Jobs
               PROVE  Cardinality(Pending(j)) <= 1
    BY DEF OneLiveEscrow
  <2>1. CASE Pending(j) = {}
    BY <2>1, FS_EmptySet
  <2>2. CASE Pending(j) # {}
    <3>1. PICK e \in EscrowIds : Live(e, j)
      BY <2>2 DEF Pending, Live
    <3>2. Pending(j) = {e}
      BY <3>1 DEF EscrowInv, OneLive, Pending, Live
    <3>3. Cardinality({e}) = 1
      BY FS_Singleton
    <3> QED BY <3>2, <3>3
  <2> QED BY <2>1, <2>2
<1> QED BY <1>1, EscrowInvAlways, PTL

(* No step takes a RELEASED or REFUNDED escrow to another status, so no     *)
(* escrow is both paid out and refunded by its record (the state guards of  *)
(* release_escrow_split and refund_escrow with _job_lock).                  *)
THEOREM SettledForGood == Spec => FinalizedOnce
<1>1. EscrowInv /\ [Next]_vars => [Final]_vars
  BY NextKeeps
<1> QED BY <1>1, EscrowInvAlways, PTL DEF Spec, FinalizedOnce, Final

--------------------------------------------------------------------------------
(****************************************************************************)
(* The money.  While a release pays its legs or takes them back, an escrow  *)
(* is neither whole nor settled: recipients have the sum of the legs paid   *)
(* so far, less those taken back, beside what earlier releases leaked.  The *)
(* recovery may empty a wallet under a call that has read its balance, so   *)
(* that a wallet holds at most what its call counts on.                     *)
(****************************************************************************)

(* No call has moved anything of e. *)
NoLegs(e) == \A t \in Callers : op[t].e = e => op[t].at = "refund"

(* What was locked is in the wallet, with recipients, back or recovered. *)
Funded(e) ==
    /\ Status(e) \in {"none", "PENDING", "RELEASED", "REFUNDED", "lost"}
    /\ escrows[e].due \in Int
    /\ Status(e) # "RELEASED" => escrows[e].due = 0
    /\ balance[e] >= 0
    /\ IF Status(e) = "none"
          THEN /\ balance[e] = 0 /\ paid[e] = 0 /\ returned[e] = 0
               /\ recovered[e] = 0 /\ leaked[e] = 0
          ELSE balance[e] + paid[e] + returned[e] + recovered[e] = Amount

(* An escrow without a call that has moved something. *)
Settled(e) ==
    /\ Status(e) \in {"PENDING", "lost"} => returned[e] = 0
    /\ Status(e) = "PENDING" /\ NoLegs(e) => paid[e] = leaked[e]
    /\ Status(e) = "RELEASED" /\ Quiet(e) =>
          paid[e] = escrows[e].due + leaked[e] /\ (e \notin stranded => balance[e] = 0)
    /\ Status(e) = "REFUNDED" => paid[e] = leaked[e] /\ balance[e] = 0
    /\ Status(e) = "lost" => paid[e] = leaked[e]

(* How far a call is, and what is left of what it has seen. *)
CallMoney(c, e) ==
    /\ c.at \in {"legs", "compensate", "remainder", "refund"}
    /\ escrows[e].job = c.job
    /\ c.seen \in Int
    /\ c.at # "refund" => c.split \in Splits
    /\ c.at \in {"legs", "compensate", "refund"} => Status(e) = "PENDING"
    /\ c.at = "remainder" => Status(e) = "RELEASED"
    /\ c.at = "legs" => /\ c.k \in 0 .. Len(c.split) - 1 /\ c.c = 0
                        /\ paid[e] = leaked[e] + Prefix(c.split, c.k)
                        /\ balance[e] <= c.seen - Prefix(c.split, c.k)
    /\ c.at = "compensate" =>
          /\ c.k \in 0 .. Len(c.split) /\ c.c \in 0 .. c.k - 1
          /\ paid[e] = leaked[e] + Prefix(c.split, c.k) - Prefix(c.split, c.c)
    /\ c.at = "remainder" => /\ paid[e] = leaked[e] + Total[c.split]
                             /\ escrows[e].due = Total[c.split]
                             /\ balance[e] <= c.seen - Total[c.split]
    /\ c.at = "refund" => balance[e] <= c.seen

(* The money of one escrow. *)
Local(e) ==
    /\ Funded(e)
    /\ Settled(e)
    /\ \A t \in Callers : op[t].e = e => CallMoney(op[t], e)

(* The ledgers hold whole amounts. *)
Ledgers ==
    /\ balance \in [Wallets -> Int]
    /\ paid \in [EscrowIds -> Int]
    /\ returned \in [EscrowIds -> Int]
    /\ recovered \in [EscrowIds -> Int]
    /\ leaked \in [EscrowIds -> Int]

(* A call names an escrow once it has begun to work on it. *)
Named ==
    \A t \in Callers : IF op[t].at \in {"idle", "create"} THEN op[t].e = 0
                                                          ELSE op[t].e \in EscrowIds

(* The inductive invariant of the money. *)
MoneyInv == EscrowInv /\ Ledgers /\ Named /\ \A e \in EscrowIds : Local(e)

(* The legs of a plan and their partial sums. *)
LEMMA PrefixFacts ==
    ASSUME NEW split \in Splits
    PROVE  /\ Len(split) \in Nat /\ Len(split) > 0
           /\ \A i \in 1 .. Len(split) : split[i] \in Nat
           /\ Prefix(split, 0) = 0
           /\ Prefix(split, Len(split)) = Total[split]
           /\ \A k \in 0 .. Len(split) - 1 :
                 Prefix(split, k + 1) = Prefix(split, k) + split[k + 1]
           /\ \A k \in 0 .. Len(split) : Prefix(split, k) \in Nat
           /\ Total[split] \in Nat
<1> DEFINE n == Len(split)
           Leg == Nat \ {0}
<1>1. split \in Seq(Leg) /\ split # <<>>
  BY PaymentEscrowAssumption
<1>2. n \in Nat /\ n > 0 /\ DOMAIN split = 1 .. n
  <2> HIDE DEF Leg
  <2> QED BY <1>1
<1>3. ASSUME NEW i \in 1 .. n PROVE split[i] \in Nat
  <2>1. split[i] \in Leg
    <3> HIDE DEF Leg
    <3> QED BY <1>1, <1>2
  <2> QED BY <2>1
<1>4. Total[split] = SumFunctionOnSet(split, 1 .. n)
  BY <1>2 DEF Total, SumFunction
<1> HIDE DEF n
<1>5. ASSUME NEW k \in 0 .. n
      PROVE  IsFiniteSet(1 .. k) /\ \A i \in 1 .. k : split[i] \in Nat
  <2>1. k \in Int /\ 1 .. k \subseteq 1 .. n
    BY <1>2
  <2>2. IsFiniteSet(1 .. k)
    BY <2>1, FS_Interval
  <2> QED BY <1>3, <2>1, <2>2
<1>6. 1 .. 0 = {}
  OBVIOUS
<1>7. SumFunctionOnSet(split, 1 .. 0) = 0
  BY <1>6, SumEmpty
<1>8. ASSUME NEW k \in 0 .. n - 1
      PROVE  SumFunctionOnSet(split, 1 .. (k + 1))
                = SumFunctionOnSet(split, 1 .. k) + split[k + 1]
  <2> DEFINE S == 1 .. k
             x == k + 1
  <2>1. 1 .. (k + 1) = S \cup {x} /\ x \notin S
    BY <1>2
  <2>2. IsFiniteSet(S)
    BY <1>2, <1>5
  <2>3. \A y \in S \cup {x} : split[y] \in Int
    BY <1>2, <1>3
  <2> HIDE DEF S, x
  <2>4. SumFunctionOnSet(split, S \cup {x}) = SumFunctionOnSet(split, S) + split[x]
    BY <2>1, <2>2, <2>3, SumAdd
  <2> QED BY <2>1, <2>4 DEF S, x
<1>9. ASSUME NEW k \in 0 .. n PROVE SumFunctionOnSet(split, 1 .. k) \in Nat
  BY <1>5, SumNat
<1>10. n \in 0 .. n
  BY <1>2
<1> QED BY <1>2, <1>3, <1>4, <1>7, <1>8, <1>9, <1>10 DEF n, Prefix

(* Moving money from one wallet to another. *)
LEMMA TransferMoves ==
    ASSUME Ledgers, NEW from \in Wallets, NEW to \in Wallets, from # to,
           NEW a \in Int, Transfer(from, to, a)
    PROVE  /\ balance' \in [Wallets -> Int]
           /\ balance[from] >= a
           /\ balance'[from] = balance[from] - a
           /\ balance'[to] = balance[to] + a
           /\ \A w \in Wallets : w # from /\ w # to => balance'[w] = balance[w]
  BY DEF Ledgers, Transfer

(* Wallets of escrows are not those of people. *)
LEMMA WalletKinds ==
    /\ Requester \in Wallets /\ EscrowIds \subseteq Wallets
    /\ \A e \in EscrowIds : e # Requester
    /\ 0 \notin EscrowIds
  BY PaymentEscrowAssumption DEF Wallets, EscrowIds

(* The amounts of f are as they were. *)
Kept(f) ==
    /\ balance'[f] = balance[f] /\ paid'[f] = paid[f] /\ returned'[f] = returned[f]
    /\ recovered'[f] = recovered[f] /\ leaked'[f] = leaked[f]
    /\ f \in stranded' <=> f \in stranded

(* Nothing of f changes in a step that leaves f and its calls alone. *)
LEMMA LocalFrame ==
    ASSUME NEW f \in EscrowIds, Local(f), Kept(f),
           escrows'[f].status = escrows[f].status, escrows'[f].due = escrows[f].due,
           escrows'[f].job = escrows[f].job,
           \A t \in Callers : op'[t].e = f \/ op[t].e = f => op'[t] = op[t]
    PROVE  Local(f)'
<1>1. Status(f)' = Status(f)
  BY DEF Status
<1>2. NoLegs(f)' = NoLegs(f) /\ Quiet(f)' = Quiet(f)
  BY DEF NoLegs, Quiet
<1>3. Funded(f)'
  BY <1>1 DEF Local, Funded, Kept
<1>4. Settled(f)'
  BY <1>1, <1>2 DEF Local, Settled, Kept
<1>5. ASSUME NEW t \in Callers, op'[t].e = f PROVE CallMoney(op[t], f)'
  <2>1. op'[t] = op[t] /\ CallMoney(op[t], f)
    BY <1>5 DEF Local
  <2> QED BY <1>1, <2>1 DEF CallMoney, Kept
<1> QED BY <1>3, <1>4, <1>5 DEF Local

(* Of the money, nothing changes but e's. *)
OthersKeep(e) == \A f \in EscrowIds \ {e} : Kept(f) /\ escrows'[f] = escrows[f]

(* A step that touches the money and the calls of e only. *)
LEMMA MoneyStep ==
    ASSUME MoneyInv, EscrowInv', Ledgers', Named', NEW e, OthersKeep(e),
           \A t \in Callers : op'[t] # op[t] => op[t].e \in {0, e} /\ op'[t].e \in {0, e},
           e \in EscrowIds => Local(e)'
    PROVE  MoneyInv'
<1>1. ASSUME NEW f \in EscrowIds PROVE Local(f)'
  <2>1. CASE f = e
    BY <2>1
  <2>2. CASE f # e
    <3>1. \A t \in Callers : op'[t].e = f \/ op[t].e = f => op'[t] = op[t]
      BY <2>2, WalletKinds
    <3>2. Kept(f) /\ escrows'[f] = escrows[f] /\ Local(f)
      BY <2>2 DEF MoneyInv, OthersKeep
    <3> QED BY <3>1, <3>2, LocalFrame
  <2> QED BY <2>1, <2>2
<1> QED BY <1>1 DEF MoneyInv

(* Only one call works on an escrow. *)
LEMMA Alone ==
    ASSUME MoneyInv, NEW e \in EscrowIds, NEW t \in Callers, NEW u \in Callers,
           op[t].e = e, op[u].e = e
    PROVE  t = u
<1>1. CallMoney(op[t], e) /\ CallMoney(op[u], e)
  BY DEF MoneyInv, Local
<1>2. op[t].at # "idle" /\ op[u].at # "idle" /\ op[t].job = op[u].job
  BY <1>1 DEF CallMoney
<1> QED BY <1>2 DEF MoneyInv, EscrowInv, Serial

(* While a job's lock is free nobody works on its escrow. *)
LEMMA FreeIsQuiet ==
    ASSUME MoneyInv, NEW e \in EscrowIds, LockFree(escrows[e].job)
    PROVE  Quiet(e)
<1> SUFFICES ASSUME NEW t \in Callers, op[t].e = e PROVE FALSE
  BY DEF Quiet
<1>1. CallMoney(op[t], e)
  BY DEF MoneyInv, Local
<1> QED BY <1>1 DEF CallMoney, LockFree

(* t's call goes from c to d, both on e or on none. *)
LEMMA OneCall ==
    ASSUME MoneyInv, NEW t \in Callers, NEW d, op' = [op EXCEPT ![t] = d]
    PROVE  /\ op'[t] = d
           /\ \A u \in Callers : u # t => op'[u] = op[u]
           /\ (IF d.at \in {"idle", "create"} THEN d.e = 0 ELSE d.e \in EscrowIds)
              => Named'
<1>1. op'[t] = d /\ \A u \in Callers : u # t => op'[u] = op[u]
  BY DEF MoneyInv, EscrowInv, Shape
<1> QED BY <1>1 DEF MoneyInv, Named

(* What is left of e's local facts when t alone works on e, in a call d. *)
LEMMA LocalAfter ==
    ASSUME NEW e \in EscrowIds, NEW t \in Callers, NEW d,
           op'[t] = d, \A u \in Callers : u # t => op'[u].e # e,
           Funded(e)', Settled(e)', d.e = e => CallMoney(d, e)'
    PROVE  Local(e)'
<1>1. ASSUME NEW u \in Callers, op'[u].e = e PROVE CallMoney(op[u], e)'
  <2>1. u = t /\ op'[u] = d /\ d.e = e
    BY <1>1
  <2> QED BY <2>1 DEF CallMoney
<1> QED BY <1>1 DEF Local

(* A step of t's call on e, or one that begins or ends it. *)
LEMMA FocusStep ==
    ASSUME MoneyInv, EscrowInv', Ledgers', NEW e \in EscrowIds, NEW t \in Callers,
           NEW d, op' = [op EXCEPT ![t] = d], op[t].e \in {0, e},
           \A u \in Callers : u # t => op[u].e # e,
           IF d.at \in {"idle", "create"} THEN d.e = 0 ELSE d.e = e,
           OthersKeep(e), Funded(e)', Settled(e)', d.e = e => CallMoney(d, e)'
    PROVE  MoneyInv'
<1>0. IF d.at \in {"idle", "create"} THEN d.e = 0 ELSE d.e \in EscrowIds
  OBVIOUS
<1>1. /\ op'[t] = d /\ \A u \in Callers : u # t => op'[u] = op[u]
      /\ Named'
  BY <1>0, OneCall
<1>2. Local(e)'
  BY <1>1, LocalAfter
<1>3. \A u \in Callers : op'[u] # op[u] => op[u].e \in {0, e} /\ op'[u].e \in {0, e}
  BY <1>1
<1> QED BY <1>1, <1>2, <1>3, MoneyStep

--------------------------------------------------------------------------------
(* A call that begins, or ends before it moves anything. *)
LEMMA OpensMoney ==
    ASSUME MoneyInv, EscrowInv', NEW t \in Callers, NEW d,
           UNCHANGED <<balance, escrows, paid, returned, recovered, leaked, stranded>>,
           op' = [op EXCEPT ![t] = d],
           op[t].e = 0, d.e = 0, d.at \in {"idle", "create"}
    PROVE  MoneyInv'
<1>1. op'[t] = d /\ \A u \in Callers : u # t => op'[u] = op[u]
  BY OneCall
<1>2. Named'
  BY OneCall
<1>3. Ledgers'
  BY DEF MoneyInv, Ledgers
<1>4. \A u \in Callers : op'[u] # op[u] => op[u].e \in {0, 0} /\ op'[u].e \in {0, 0}
  BY <1>1
<1>5. 0 \notin EscrowIds
  BY WalletKinds
<1>6. OthersKeep(0)
  BY DEF OthersKeep, Kept
<1> QED BY <1>2, <1>3, <1>4, <1>5, <1>6, MoneyStep

(* release_escrow_split counts on what it finds in the wallet. *)
LEMMA ReleaseMoney ==
    ASSUME MoneyInv, EscrowInv', NEW t \in Callers, NEW j \in Jobs,
           NEW split \in Splits, BeginRelease(t, j, split)
    PROVE  MoneyInv'
<1>1. PICK e \in EscrowIds : e = First(Pending(j)) /\ Live(e, j)
  BY FirstPending DEF BeginRelease, MoneyInv, EscrowInv
<1> DEFINE d == [Idle EXCEPT !.at = "legs", !.job = j, !.e = e,
                             !.seen = balance[e], !.split = split]
<1>2. /\ op' = [op EXCEPT ![t] = d] /\ op[t].at = "idle" /\ LockFree(j)
      /\ UNCHANGED <<balance, escrows, paid, returned, recovered, leaked, stranded>>
  BY <1>1 DEF BeginRelease, history
<1>3. /\ d.at = "legs" /\ d.e = e /\ d.job = j /\ d.seen = balance[e]
      /\ d.split = split /\ d.k = 0 /\ d.c = 0
  BY DEF Idle
<1>4. PICK b : b = balance[e]
  OBVIOUS
<1>5. PICK x : /\ op' = [op EXCEPT ![t] = x] /\ x.at = "legs" /\ x.e = e
               /\ x.job = j /\ x.seen = b /\ x.split = split /\ x.k = 0 /\ x.c = 0
  BY <1>2, <1>3, <1>4
<1>6. Quiet(e) /\ op[t].e = 0 /\ Status(e) = "PENDING" /\ escrows[e].job = j
  BY <1>1, <1>2, FreeIsQuiet DEF Live, MoneyInv, Named
<1>7. Ledgers' /\ Ledgers
  BY <1>2 DEF MoneyInv, Ledgers
<1>8. Funded(e)' /\ Status(e)' = "PENDING" /\ escrows'[e].job = j
  BY <1>2, <1>6 DEF MoneyInv, Local, Funded, Status
<1>9. paid[e] = leaked[e] /\ returned[e] = 0
  <2>1. NoLegs(e)
    BY <1>6 DEF Quiet, NoLegs
  <2> QED BY <1>6, <2>1 DEF MoneyInv, Local, Settled
<1>10. Settled(e)'
  BY <1>2, <1>8, <1>9 DEF Settled
<1>11. CallMoney(x, e)'
  <2>1. b \in Int /\ leaked[e] \in Int
    BY <1>4, <1>7, WalletKinds DEF Ledgers
  <2>2. 0 \in 0 .. Len(split) - 1 /\ Prefix(split, 0) = 0
    BY PrefixFacts
  <2>3. paid'[e] = leaked'[e] + Prefix(split, 0) /\ balance'[e] <= b - Prefix(split, 0)
    BY <1>2, <1>4, <1>9, <2>1, <2>2
  <2> QED BY <1>5, <1>8, <2>1, <2>2, <2>3 DEF CallMoney
<1>12. \A u \in Callers : u # t => op[u].e # e
  BY <1>6 DEF Quiet
<1>13. OthersKeep(e)
  BY <1>2 DEF OthersKeep, Kept
<1> QED BY <1>5, <1>6, <1>7, <1>8, <1>10, <1>11, <1>12, <1>13, FocusStep

(* refund_escrow counts on what it finds in the wallet, and settles at once *)
(* an escrow whose wallet is empty.                                         *)
LEMMA BeginRefundMoney ==
    ASSUME MoneyInv, EscrowInv', NEW t \in Callers, NEW j \in Jobs, BeginRefund(t, j)
    PROVE  MoneyInv'
<1>1. PICK e \in EscrowIds : e = First(Pending(j)) /\ Live(e, j)
  BY FirstPending DEF BeginRefund, MoneyInv, EscrowInv
<1>2. PICK b : b = balance[e]
  OBVIOUS
<1> DEFINE d == [Idle EXCEPT !.at = "refund", !.job = j, !.e = e, !.seen = b]
<1>3. /\ op[t].at = "idle" /\ LockFree(j)
      /\ UNCHANGED <<balance, paid, returned, recovered, leaked, stranded>>
      /\ \/ op' = [op EXCEPT ![t] = d] /\ UNCHANGED escrows
         \/ /\ op' = [op EXCEPT ![t] = Idle] /\ ~(b > 0)
            /\ escrows' = [escrows EXCEPT ![e].status = "REFUNDED"]
  BY <1>1, <1>2 DEF BeginRefund, MayRefund, Returns, history
<1>4. Quiet(e) /\ op[t].e = 0 /\ Status(e) = "PENDING" /\ escrows[e].job = j
  BY <1>1, <1>3, FreeIsQuiet DEF Live, MoneyInv, Named
<1>5. Ledgers' /\ Ledgers /\ b \in Int
  BY <1>2, <1>3, WalletKinds DEF MoneyInv, Ledgers
<1>6. /\ balance[e] + paid[e] + returned[e] + recovered[e] = Amount
      /\ escrows[e].due = 0 /\ b >= 0
  BY <1>2, <1>4 DEF MoneyInv, Local, Funded
<1>7. paid[e] = leaked[e] /\ returned[e] = 0
  <2>1. NoLegs(e)
    BY <1>4 DEF Quiet, NoLegs
  <2> QED BY <1>4, <2>1 DEF MoneyInv, Local, Settled
<1>8. \A u \in Callers : u # t => op[u].e # e
  BY <1>4 DEF Quiet
<1>9. CASE op' = [op EXCEPT ![t] = d] /\ UNCHANGED escrows
  <2>1. PICK x : /\ op' = [op EXCEPT ![t] = x] /\ x.at = "refund" /\ x.e = e
                 /\ x.job = j /\ x.seen = b
    <3>1. d.at = "refund" /\ d.e = e /\ d.job = j /\ d.seen = b
      BY DEF Idle
    <3> HIDE DEF d
    <3> QED BY <1>9, <3>1
  <2>2. Funded(e)' /\ Status(e)' = "PENDING" /\ escrows'[e].job = j
    BY <1>3, <1>4, <1>9 DEF MoneyInv, Local, Funded, Status
  <2>3. Settled(e)'
    BY <1>3, <1>7, <2>2 DEF Settled
  <2>4. CallMoney(x, e)'
    BY <1>2, <1>3, <1>5, <2>1, <2>2 DEF CallMoney
  <2>5. OthersKeep(e)
    BY <1>3, <1>9 DEF OthersKeep, Kept
  <2> QED BY <1>4, <1>5, <1>8, <2>1, <2>2, <2>3, <2>4, <2>5, FocusStep
<1>10. CASE /\ op' = [op EXCEPT ![t] = Idle] /\ ~(b > 0)
            /\ escrows' = [escrows EXCEPT ![e].status = "REFUNDED"]
  <2>1. /\ escrows'[e].status = "REFUNDED" /\ escrows'[e].due = escrows[e].due
        /\ \A f \in EscrowIds \ {e} : escrows'[f] = escrows[f]
    BY <1>10 DEF MoneyInv, EscrowInv, Shape, EscrowFields
  <2>2. balance[e] = 0
    BY <1>2, <1>5, <1>6, <1>10
  <2>3. Funded(e)'
    BY <1>2, <1>3, <1>6, <2>1 DEF Funded, Status
  <2>4. Settled(e)'
    BY <1>3, <1>7, <2>1, <2>2 DEF Settled, Status
  <2>5. OthersKeep(e)
    BY <1>3, <2>1 DEF OthersKeep, Kept
  <2>6. Idle.at = "idle" /\ Idle.e = 0 /\ 0 # e
    BY WalletKinds DEF Idle
  <2> QED BY <1>4, <1>5, <1>8, <1>10, <2>3, <2>4, <2>5, <2>6, FocusStep
<1> QED BY <1>3, <1>9, <1>10

(* A new escrow holds what was locked. *)
LEMMA CreateMoney ==
    ASSUME MoneyInv, EscrowInv', NEW t \in Callers, Create(t)
    PROVE  MoneyInv'
<1>1. /\ op[t].at = "create" /\ op' = [op EXCEPT ![t] = Idle]
      /\ UNCHANGED <<paid, returned, recovered, leaked, stranded>>
  BY DEF Create, Returns, history
<1>2. op[t].e = 0 /\ Idle.at = "idle" /\ Idle.e = 0
  BY <1>1 DEF MoneyInv, Named, Idle
<1>3. CASE UNCHANGED <<balance, escrows>>
  BY <1>1, <1>2, <1>3, OpensMoney
<1>4. CASE ~UNCHANGED <<balance, escrows>>
  <2>1. PICK e \in EscrowIds :
             /\ e = Cardinality(Created) + 1
             /\ Transfer(Requester, e, Amount)
             /\ escrows' = [escrows EXCEPT ![e] = [NoEscrow EXCEPT !.job = op[t].job,
                                                                    !.status = "PENDING"]]
    BY <1>4 DEF Create
  <2>2. Status(e) = "none"
    BY <2>1, NextFree DEF MoneyInv, EscrowInv
  <2>3. balance[e] = 0 /\ paid[e] = 0 /\ returned[e] = 0 /\ recovered[e] = 0 /\ leaked[e] = 0
    BY <2>2 DEF MoneyInv, Local, Funded
  <2>4. /\ escrows'[e].status = "PENDING" /\ escrows'[e].due = 0
        /\ \A f \in EscrowIds \ {e} : escrows'[f] = escrows[f]
    BY <2>1 DEF MoneyInv, EscrowInv, Shape, NoEscrow
  <2>5. e # Requester /\ e \in Wallets /\ Requester \in Wallets /\ Amount \in Nat
    BY WalletKinds, PaymentEscrowAssumption
  <2>6. Ledgers
    BY DEF MoneyInv
  <2>7. /\ balance' \in [Wallets -> Int]
        /\ balance'[e] = balance[e] + Amount
        /\ \A w \in Wallets : w # Requester /\ w # e => balance'[w] = balance[w]
    BY <2>1, <2>5, <2>6, TransferMoves
  <2>8. Ledgers'
    BY <1>1, <2>6, <2>7 DEF Ledgers
  <2>9. Funded(e)'
    <3>1. balance'[e] + paid'[e] + returned'[e] + recovered'[e] = Amount /\ balance'[e] >= 0
      BY <1>1, <2>3, <2>5, <2>7
    <3> QED BY <2>4, <3>1 DEF Funded, Status
  <2>10. Settled(e)'
    BY <1>1, <2>3, <2>4 DEF Settled, Status
  <2>11. OthersKeep(e)
    BY <1>1, <2>4, <2>7, WalletKinds DEF OthersKeep, Kept
  <2>12. ASSUME NEW u \in Callers PROVE op[u].e # e
    <3>1. op[u].e = e => CallMoney(op[u], e)
      BY DEF MoneyInv, Local
    <3> QED BY <2>2, <3>1 DEF CallMoney
  <2>13. 0 # e
    BY WalletKinds
  <2> QED BY <1>1, <1>2, <2>8, <2>9, <2>10, <2>11, <2>12, <2>13, FocusStep
<1> QED BY <1>3, <1>4

(* t's call c is at work on e, and is alone there. *)
AtWork(t, c, e) ==
    /\ c = op[t] /\ e = c.e /\ e \in EscrowIds
    /\ CallMoney(c, e) /\ Funded(e) /\ Settled(e) /\ Ledgers
    /\ \A u \in Callers : u # t => op[u].e # e
    /\ DOMAIN c = CallFields
    /\ balance[e] \in Int /\ paid[e] \in Int /\ returned[e] \in Int
    /\ recovered[e] \in Int /\ leaked[e] \in Int
    /\ e \in Wallets /\ e # Requester /\ e # 0

(* A call past its beginning is at work. *)
LEMMA Working ==
    ASSUME MoneyInv, NEW t \in Callers, op[t].at \notin {"idle", "create"}
    PROVE  \E c, e : AtWork(t, c, e)
<1>1. PICK c : c = op[t]
  OBVIOUS
<1>2. PICK e : e = c.e
  OBVIOUS
<1>3. e \in EscrowIds
  BY <1>1, <1>2 DEF MoneyInv, Named
<1>4. CallMoney(c, e) /\ Funded(e) /\ Settled(e) /\ Ledgers
  BY <1>1, <1>2, <1>3 DEF MoneyInv, Local
<1>5. \A u \in Callers : u # t => op[u].e # e
  BY <1>1, <1>2, <1>3, Alone
<1>6. DOMAIN c = CallFields
  BY <1>1 DEF MoneyInv, EscrowInv, Shape
<1>7. /\ e \in Wallets /\ e # Requester /\ e # 0
      /\ balance[e] \in Int /\ paid[e] \in Int /\ returned[e] \in Int
      /\ recovered[e] \in Int /\ leaked[e] \in Int
  BY <1>3, <1>4, WalletKinds DEF Ledgers
<1>8. AtWork(t, c, e)
  BY <1>1, <1>2, <1>3, <1>4, <1>5, <1>6, <1>7 DEF AtWork
<1> QED BY <1>8

(* A leg moves its amount from the wallet to the recipients; the last one   *)
(* settles the record.                                                      *)
LEMMA PayLegMoney ==
    ASSUME MoneyInv, EscrowInv', NEW t \in Callers, PayLeg(t)
    PROVE  MoneyInv'
<1>1. PICK c, e : AtWork(t, c, e)
  BY Working DEF PayLeg
<1> USE DEF AtWork
<1>2. c.at = "legs"
  BY <1>1 DEF PayLeg
<1>3. PICK n : n = c.k + 1
  OBVIOUS
<1>4. PICK leg : leg = c.split[n]
  OBVIOUS
<1>5. /\ c.split \in Splits /\ c.k \in 0 .. Len(c.split) - 1 /\ c.c = 0
      /\ c.seen \in Int /\ Status(e) = "PENDING"
      /\ paid[e] = leaked[e] + Prefix(c.split, c.k)
      /\ balance[e] <= c.seen - Prefix(c.split, c.k)
  BY <1>1, <1>2 DEF CallMoney
<1>6. /\ Len(c.split) \in Nat /\ n \in 1 .. Len(c.split) /\ leg \in Int
      /\ Prefix(c.split, n) = Prefix(c.split, c.k) + leg
      /\ Prefix(c.split, c.k) \in Int
      /\ Prefix(c.split, Len(c.split)) = Total[c.split]
      /\ Total[c.split] \in Int
  <2>1. /\ Len(c.split) \in Nat
        /\ \A i \in 1 .. Len(c.split) : c.split[i] \in Nat
        /\ Prefix(c.split, Len(c.split)) = Total[c.split]
        /\ \A k \in 0 .. Len(c.split) - 1 :
              Prefix(c.split, k + 1) = Prefix(c.split, k) + c.split[k + 1]
        /\ \A k \in 0 .. Len(c.split) : Prefix(c.split, k) \in Nat
        /\ Total[c.split] \in Nat
    BY <1>5, PrefixFacts
  <2>2. n \in 1 .. Len(c.split) /\ c.k \in 0 .. Len(c.split)
    BY <1>3, <1>5, <2>1
  <2>3. Prefix(c.split, n) = Prefix(c.split, c.k) + leg
    BY <1>3, <1>4, <1>5, <2>1
  <2> QED BY <1>4, <2>1, <2>2, <2>3
<1>7. /\ balance[e] >= leg
      /\ balance' = [balance EXCEPT ![e] = @ - leg]
      /\ paid' = [paid EXCEPT ![e] = @ + leg]
      /\ UNCHANGED <<returned, recovered, leaked, stranded>>
  BY <1>1, <1>3, <1>4 DEF PayLeg, TransferOut
<1>8. /\ balance'[e] = balance[e] - leg /\ paid'[e] = paid[e] + leg
      /\ \A f \in EscrowIds \ {e} : balance'[f] = balance[f] /\ paid'[f] = paid[f]
  BY <1>1, <1>7, WalletKinds DEF Ledgers
<1>9. Ledgers'
  <2>1. balance[e] - leg \in Int /\ paid[e] + leg \in Int
    BY <1>1, <1>6
  <2>2. balance' \in [Wallets -> Int] /\ paid' \in [EscrowIds -> Int]
    BY <1>1, <1>7, <2>1 DEF Ledgers
  <2> QED BY <1>1, <1>7, <2>2 DEF Ledgers
<1>10. /\ balance'[e] + paid'[e] + returned'[e] + recovered'[e] = Amount
       /\ balance'[e] >= 0 /\ balance'[e] <= c.seen - Prefix(c.split, n)
       /\ paid'[e] = leaked'[e] + Prefix(c.split, n)
  <2>1. balance[e] + paid[e] + returned[e] + recovered[e] = Amount
    BY <1>1, <1>5 DEF Funded
  <2>2. /\ balance[e] \in Int /\ paid[e] \in Int /\ returned[e] \in Int
        /\ recovered[e] \in Int /\ leaked[e] \in Int
    BY <1>1
  <2> HIDE DEF AtWork
  <2>3. returned'[e] = returned[e] /\ recovered'[e] = recovered[e] /\ leaked'[e] = leaked[e]
    BY <1>7
  <2>4. balance'[e] + paid'[e] + returned'[e] + recovered'[e] = Amount
    BY <1>6, <1>8, <2>1, <2>2, <2>3
  <2>5. balance'[e] >= 0
    BY <1>6, <1>7, <1>8, <2>2
  <2>6. balance'[e] <= c.seen - Prefix(c.split, n)
    <3>1. \A b, s, q, x \in Int : b <= s - q => b - x <= s - (q + x)
      OBVIOUS
    <3>2. /\ c.seen \in Int /\ Prefix(c.split, c.k) \in Int /\ leg \in Int
          /\ balance[e] <= c.seen - Prefix(c.split, c.k)
      BY <1>5, <1>6
    <3>3. balance[e] - leg <= c.seen - (Prefix(c.split, c.k) + leg)
      BY <2>2, <3>1, <3>2
    <3> QED BY <1>6, <1>8, <3>3
  <2>7. paid'[e] = leaked'[e] + Prefix(c.split, n)
    BY <1>5, <1>6, <1>8, <2>2, <2>3
  <2> QED BY <2>4, <2>5, <2>6, <2>7
<1>11. escrows[e].due = 0 /\ returned'[e] = 0
  BY <1>1, <1>5, <1>7 DEF Funded, Settled
<1>12. CASE n # Len(c.split)
  <2> DEFINE d == [c EXCEPT !.k = n]
  <2>1. UNCHANGED escrows /\ op' = [op EXCEPT ![t] = d]
    <3>1. UNCHANGED escrows
      BY <1>1, <1>3, <1>12 DEF PayLeg
    <3>2. op' = [op EXCEPT ![t].k = @ + 1, ![t].at = @]
      BY <1>1, <1>3, <1>12 DEF PayLeg
    <3>3. [op[t] EXCEPT !.k = @ + 1, !.at = @] = d
      BY <1>1, <1>3 DEF CallFields
    <3> HIDE DEF d
    <3> QED BY <3>1, <3>2, <3>3
  <2>2. /\ d.at = "legs" /\ d.e = e /\ d.job = c.job /\ d.seen = c.seen
        /\ d.split = c.split /\ d.k = n /\ d.c = 0
    BY <1>1, <1>2, <1>5 DEF CallFields
  <2> HIDE DEF d
  <2>3. n \in 0 .. Len(c.split) - 1
    BY <1>6, <1>12
  <2>4. Status(e)' = "PENDING" /\ escrows'[e].job = c.job /\ escrows'[e].due = 0
    BY <1>1, <1>5, <1>11, <2>1 DEF Status, CallMoney
  <2>5. Funded(e)'
    BY <1>10, <2>4 DEF Funded
  <2>6. op'[t] = d
    BY <2>1, OneCall
  <2>7. ~NoLegs(e)'
    BY <2>2, <2>6 DEF NoLegs
  <2>8. Settled(e)'
    BY <1>11, <2>4, <2>7 DEF Settled
  <2>9. CallMoney(d, e)'
    BY <1>5, <1>10, <2>2, <2>3, <2>4 DEF CallMoney
  <2>10. OthersKeep(e)
    BY <1>7, <1>8, <2>1 DEF OthersKeep, Kept
  <2> QED BY <1>1, <1>9, <2>1, <2>2, <2>5, <2>8, <2>9, <2>10, FocusStep
<1>13. CASE n = Len(c.split)
  <2>1. /\ escrows' = [escrows EXCEPT ![e].status = "RELEASED",
                                      ![e].due = @ + Total[c.split]]
        /\ \/ c.seen = Total[c.split] /\ op' = [op EXCEPT ![t] = Idle]
           \/ /\ c.seen # Total[c.split]
              /\ op' = [op EXCEPT ![t].k = @ + 1, ![t].at = "remainder"]
    BY <1>1, <1>3, <1>13 DEF PayLeg, Returns
  <2>2. /\ escrows'[e].status = "RELEASED" /\ escrows'[e].job = escrows[e].job
        /\ escrows'[e].due = Total[c.split]
        /\ \A f \in EscrowIds \ {e} : escrows'[f] = escrows[f]
    <3>1. /\ escrows'[e].status = "RELEASED" /\ escrows'[e].job = escrows[e].job
          /\ escrows'[e].due = escrows[e].due + Total[c.split]
          /\ \A f \in EscrowIds \ {e} : escrows'[f] = escrows[f]
      BY <1>1, <2>1 DEF MoneyInv, EscrowInv, Shape, EscrowFields
    <3> QED BY <1>6, <1>11, <3>1
  <2>3. Funded(e)'
    BY <1>6, <1>10, <2>2 DEF Funded, Status
  <2>4. OthersKeep(e)
    BY <1>7, <1>8, <2>2 DEF OthersKeep, Kept
  <2>5. /\ paid'[e] = leaked'[e] + Total[c.split]
        /\ balance'[e] <= c.seen - Total[c.split]
    BY <1>6, <1>10, <1>13
  <2>6. CASE c.seen = Total[c.split] /\ op' = [op EXCEPT ![t] = Idle]
    <3>1. balance'[e] = 0 /\ paid'[e] = escrows'[e].due + leaked'[e]
      <4>1. balance'[e] \in Int /\ leaked'[e] \in Int
        BY <1>1, <1>6, <1>7, <1>8
      <4> QED BY <1>6, <1>10, <2>2, <2>5, <2>6, <4>1
    <3>2. Settled(e)'
      BY <2>2, <3>1 DEF Settled, Status
    <3>3. Idle.at = "idle" /\ Idle.e = 0
      BY DEF Idle
    <3> QED BY <1>1, <1>9, <2>3, <2>4, <2>6, <3>2, <3>3, FocusStep
  <2>7. CASE /\ c.seen # Total[c.split]
             /\ op' = [op EXCEPT ![t].k = @ + 1, ![t].at = "remainder"]
    <3> DEFINE d == [c EXCEPT !.k = n, !.at = "remainder"]
    <3>1. op' = [op EXCEPT ![t] = d]
      <4>1. [op[t] EXCEPT !.k = @ + 1, !.at = "remainder"] = d
        BY <1>1, <1>3 DEF CallFields
      <4> HIDE DEF d
      <4> QED BY <2>7, <4>1
    <3>2. /\ d.at = "remainder" /\ d.e = e /\ d.job = c.job /\ d.seen = c.seen
          /\ d.split = c.split
      BY <1>1 DEF CallFields
    <3> HIDE DEF d
    <3>3. op'[t] = d
      BY <3>1, OneCall
    <3>4. ~Quiet(e)'
      BY <3>2, <3>3 DEF Quiet
    <3>5. Settled(e)'
      BY <2>2, <3>4 DEF Settled, Status
    <3>6. CallMoney(d, e)'
      BY <1>1, <1>5, <2>2, <2>5, <3>2 DEF CallMoney, Status
    <3> QED BY <1>1, <1>9, <2>3, <2>4, <3>1, <3>2, <3>5, <3>6, FocusStep
  <2> QED BY <2>1, <2>6, <2>7
<1> QED BY <1>12, <1>13

(* A leg that raises moves nothing: the legs before it are to be taken      *)
(* back, or have leaked.                                                    *)
LEMMA LegFailsMoney ==
    ASSUME MoneyInv, EscrowInv', NEW t \in Callers, LegFails(t)
    PROVE  MoneyInv'
<1>1. PICK c, e : AtWork(t, c, e)
  BY Working DEF LegFails
<1> USE DEF AtWork
<1>2. c.at = "legs" /\ UNCHANGED <<balance, escrows, paid, returned, recovered, stranded>>
  BY <1>1 DEF LegFails, history
<1>3. /\ c.split \in Splits /\ c.k \in 0 .. Len(c.split) - 1 /\ c.c = 0
      /\ c.seen \in Int /\ Status(e) = "PENDING" /\ escrows[e].job = c.job
      /\ paid[e] = leaked[e] + Prefix(c.split, c.k)
  BY <1>1, <1>2 DEF CallMoney
<1>4. Len(c.split) \in Nat /\ Prefix(c.split, 0) = 0 /\ Prefix(c.split, c.k) \in Nat
  <2>1. Len(c.split) \in Nat
    BY <1>3, PrefixFacts
  <2>2. c.k \in 0 .. Len(c.split)
    BY <1>3, <2>1
  <2> QED BY <1>3, <2>1, <2>2, PrefixFacts
<1>5. Status(e)' = "PENDING" /\ escrows'[e].job = c.job /\ returned'[e] = 0
  BY <1>1, <1>2, <1>3 DEF Status, Settled
<1>6. Funded(e)'
  BY <1>1, <1>2, <1>3 DEF Funded, Status
<1>7. CASE UNCHANGED leaked /\ c.k > 0 /\ op' = [op EXCEPT ![t].at = "compensate"]
  <2> DEFINE d == [c EXCEPT !.at = "compensate"]
  <2>1. op' = [op EXCEPT ![t] = d]
    BY <1>1, <1>7
  <2>2. /\ d.at = "compensate" /\ d.e = e /\ d.job = c.job /\ d.seen = c.seen
        /\ d.split = c.split /\ d.k = c.k /\ d.c = 0
    BY <1>1, <1>3 DEF CallFields
  <2> HIDE DEF d
  <2>3. op'[t] = d
    BY <2>1, OneCall
  <2>4. ~NoLegs(e)'
    BY <2>2, <2>3 DEF NoLegs
  <2>5. Settled(e)'
    BY <1>5, <2>4 DEF Settled
  <2>6. c.k \in 0 .. Len(c.split) /\ 0 \in 0 .. c.k - 1
    BY <1>3, <1>4, <1>7
  <2>7. paid'[e] = leaked'[e] + Prefix(c.split, c.k) - Prefix(c.split, 0)
    BY <1>1, <1>2, <1>3, <1>4, <1>7
  <2>8. CallMoney(d, e)'
    BY <1>3, <1>5, <2>2, <2>6, <2>7 DEF CallMoney
  <2>9. Ledgers' /\ OthersKeep(e)
    BY <1>1, <1>2, <1>7 DEF Ledgers, OthersKeep, Kept
  <2> QED BY <1>1, <1>6, <2>1, <2>2, <2>5, <2>8, <2>9, FocusStep
<1>8. CASE /\ op' = [op EXCEPT ![t] = Idle]
           /\ leaked' = [leaked EXCEPT ![e] = @ + Prefix(c.split, c.k)]
  <2>1. /\ leaked'[e] = leaked[e] + Prefix(c.split, c.k)
        /\ \A f \in EscrowIds \ {e} : leaked'[f] = leaked[f]
    BY <1>1, <1>8 DEF Ledgers
  <2>2. paid'[e] = leaked'[e]
    BY <1>2, <1>3, <2>1
  <2>3. Settled(e)'
    BY <1>5, <2>2 DEF Settled
  <2>4. Ledgers' /\ OthersKeep(e)
    BY <1>1, <1>2, <1>4, <1>8, <2>1 DEF Ledgers, OthersKeep, Kept
  <2>5. Idle.at = "idle" /\ Idle.e = 0
    BY DEF Idle
  <2> QED BY <1>1, <1>6, <1>8, <2>3, <2>4, <2>5, FocusStep
<1>9. \/ UNCHANGED leaked /\ c.k > 0 /\ op' = [op EXCEPT ![t].at = "compensate"]
      \/ /\ op' = [op EXCEPT ![t] = Idle]
         /\ leaked' = [leaked EXCEPT ![e] = @ + Prefix(c.split, c.k)]
  <2>1. CASE UNCHANGED leaked /\ c.k = 0 /\ op' = [op EXCEPT ![t] = Idle]
    <3>1. leaked[e] + Prefix(c.split, c.k) = leaked[e]
      BY <1>1, <1>4, <2>1
    <3>2. leaked' = [leaked EXCEPT ![e] = @ + Prefix(c.split, c.k)]
      BY <1>1, <2>1, <3>1 DEF Ledgers
    <3> QED BY <2>1, <3>2
  <2> QED BY <1>1, <2>1 DEF LegFails, Returns
<1> QED BY <1>7, <1>8, <1>9

(* A leg that is taken back restores the wallet; one that is not has        *)
(* leaked.                                                                  *)
LEMMA CompensateMoney ==
    ASSUME MoneyInv, EscrowInv', NEW t \in Callers, Compensate(t)
    PROVE  MoneyInv'
<1>1. PICK c, e : AtWork(t, c, e)
  BY Working DEF Compensate
<1> USE DEF AtWork
<1>2. c.at = "compensate" /\ UNCHANGED <<escrows, returned, recovered, stranded>>
  BY <1>1 DEF Compensate
<1>3. PICK n : n = c.c + 1
  OBVIOUS
<1>4. PICK leg : leg = c.split[n]
  OBVIOUS
<1>5. /\ c.split \in Splits /\ c.k \in 0 .. Len(c.split) /\ c.c \in 0 .. c.k - 1
      /\ c.seen \in Int /\ Status(e) = "PENDING" /\ escrows[e].job = c.job
      /\ paid[e] = leaked[e] + Prefix(c.split, c.k) - Prefix(c.split, c.c)
  BY <1>1, <1>2 DEF CallMoney
<1>6. /\ Len(c.split) \in Nat /\ n \in 1 .. c.k /\ leg \in Nat
      /\ Prefix(c.split, n) = Prefix(c.split, c.c) + leg
      /\ Prefix(c.split, c.c) \in Int /\ Prefix(c.split, c.k) \in Int
  <2>1. /\ Len(c.split) \in Nat
        /\ \A i \in 1 .. Len(c.split) : c.split[i] \in Nat
        /\ \A k \in 0 .. Len(c.split) - 1 :
              Prefix(c.split, k + 1) = Prefix(c.split, k) + c.split[k + 1]
        /\ \A k \in 0 .. Len(c.split) : Prefix(c.split, k) \in Nat
    BY <1>5, PrefixFacts
  <2>2. /\ n \in 1 .. Len(c.split) /\ n \in 1 .. c.k
        /\ c.c \in 0 .. Len(c.split) - 1 /\ c.c \in 0 .. Len(c.split)
    BY <1>3, <1>5, <2>1
  <2>3. Prefix(c.split, n) = Prefix(c.split, c.c) + leg /\ leg \in Nat
    BY <1>3, <1>4, <2>1, <2>2
  <2>4. Prefix(c.split, c.c) \in Nat /\ Prefix(c.split, c.k) \in Nat
    BY <1>5, <2>1, <2>2
  <2> QED BY <2>1, <2>2, <2>3, <2>4
<1>7. /\ Ledgers' /\ Funded(e)' /\ OthersKeep(e)
      /\ paid'[e] = leaked'[e] + Prefix(c.split, c.k) - Prefix(c.split, n)
  <2>1. /\ balance[e] + paid[e] + returned[e] + recovered[e] = Amount
        /\ escrows[e].due = 0 /\ balance[e] >= 0
    BY <1>1, <1>5 DEF Funded
  <2>2. CASE leaked' = [leaked EXCEPT ![e] = @ + leg] /\ UNCHANGED <<balance, paid>>
    <3>1. /\ leaked'[e] = leaked[e] + leg
          /\ \A f \in EscrowIds \ {e} : leaked'[f] = leaked[f]
      BY <1>1, <2>2 DEF Ledgers
    <3>2. Ledgers'
      BY <1>1, <1>2, <1>6, <2>2 DEF Ledgers
    <3>3. Funded(e)'
      BY <1>1, <1>2, <1>5, <2>2 DEF Funded, Status
    <3>4. OthersKeep(e)
      BY <1>2, <2>2, <3>1 DEF OthersKeep, Kept
    <3>5. paid'[e] = leaked'[e] + Prefix(c.split, c.k) - Prefix(c.split, n)
      BY <1>1, <1>5, <1>6, <2>2, <3>1
    <3> QED BY <3>2, <3>3, <3>4, <3>5
  <2>3. CASE TransferBack(e, leg) /\ UNCHANGED leaked
    <3>1. /\ balance'[e] = balance[e] + leg /\ paid'[e] = paid[e] - leg
          /\ \A f \in EscrowIds \ {e} : balance'[f] = balance[f] /\ paid'[f] = paid[f]
      BY <1>1, <2>3, WalletKinds DEF Ledgers, TransferBack
    <3>2. Ledgers'
      <4>1. balance[e] + leg \in Int /\ paid[e] - leg \in Int
        BY <1>1, <1>6
      <4>2. balance' \in [Wallets -> Int] /\ paid' \in [EscrowIds -> Int]
        BY <1>1, <2>3, <4>1 DEF Ledgers, TransferBack
      <4> QED BY <1>1, <1>2, <2>3, <4>2 DEF Ledgers
    <3>3. balance'[e] + paid'[e] + returned'[e] + recovered'[e] = Amount /\ balance'[e] >= 0
      BY <1>1, <1>2, <1>6, <2>1, <3>1
    <3>4. Funded(e)'
      BY <1>2, <1>5, <2>1, <3>3 DEF Funded, Status
    <3>5. OthersKeep(e)
      BY <1>2, <2>3, <3>1 DEF OthersKeep, Kept
    <3>6. paid'[e] = leaked'[e] + Prefix(c.split, c.k) - Prefix(c.split, n)
      <4>1. leaked[e] \in Int /\ leaked'[e] = leaked[e]
        BY <1>1, <2>3
      <4> HIDE DEF AtWork
      <4> QED BY <1>5, <1>6, <3>1, <4>1
    <3> QED BY <3>2, <3>4, <3>5, <3>6
  <2> QED BY <1>1, <1>3, <1>4, <2>2, <2>3 DEF Compensate
<1>8. Status(e)' = "PENDING" /\ escrows'[e].job = c.job /\ returned'[e] = 0
  BY <1>1, <1>2, <1>5 DEF Status, Settled
<1>9. CASE n = c.k /\ op' = [op EXCEPT ![t] = Idle]
  <2>1. paid'[e] = leaked'[e]
    <3>1. leaked'[e] \in Int
      BY <1>1, <1>7 DEF Ledgers
    <3> QED BY <1>6, <1>7, <1>9, <3>1
  <2>2. Settled(e)'
    BY <1>8, <2>1 DEF Settled
  <2>3. Idle.at = "idle" /\ Idle.e = 0
    BY DEF Idle
  <2> QED BY <1>1, <1>7, <1>9, <2>2, <2>3, FocusStep
<1>10. CASE n # c.k /\ op' = [op EXCEPT ![t].c = @ + 1]
  <2> DEFINE d == [c EXCEPT !.c = n]
  <2>1. op' = [op EXCEPT ![t] = d]
    <3>1. [op[t] EXCEPT !.c = @ + 1] = d
      BY <1>1, <1>3 DEF CallFields
    <3> HIDE DEF d
    <3> QED BY <1>10, <3>1
  <2>2. /\ d.at = "compensate" /\ d.e = e /\ d.job = c.job /\ d.seen = c.seen
        /\ d.split = c.split /\ d.k = c.k /\ d.c = n
    BY <1>1, <1>2 DEF CallFields
  <2> HIDE DEF d
  <2>3. op'[t] = d
    BY <2>1, OneCall
  <2>4. ~NoLegs(e)'
    BY <2>2, <2>3 DEF NoLegs
  <2>5. Settled(e)'
    BY <1>8, <2>4 DEF Settled
  <2>6. n \in 0 .. c.k - 1
    BY <1>5, <1>6, <1>10
  <2>7. CallMoney(d, e)'
    BY <1>5, <1>7, <1>8, <2>2, <2>6 DEF CallMoney
  <2> QED BY <1>1, <1>7, <2>1, <2>2, <2>5, <2>7, FocusStep
<1>11. \/ n = c.k /\ op' = [op EXCEPT ![t] = Idle]
       \/ n # c.k /\ op' = [op EXCEPT ![t].c = @ + 1]
  <2>1. CASE n = c.k
    BY <1>1, <1>3, <2>1 DEF Compensate, Returns
  <2>2. CASE n # c.k
    BY <1>1, <1>3, <2>2 DEF Compensate, Returns
  <2> QED BY <2>1, <2>2
<1> QED BY <1>9, <1>10, <1>11

(* The rest of a released escrow goes back and leaves the wallet empty, or  *)
(* is stranded.                                                             *)
LEMMA RemainderMoney ==
    ASSUME MoneyInv, EscrowInv', NEW t \in Callers, Remainder(t)
    PROVE  MoneyInv'
<1>1. PICK c, e : AtWork(t, c, e)
  BY Working DEF Remainder
<1> USE DEF AtWork
<1>2. /\ c.at = "remainder" /\ UNCHANGED <<escrows, paid, recovered, leaked>>
      /\ op' = [op EXCEPT ![t] = Idle]
  BY <1>1 DEF Remainder, Returns
<1>3. /\ c.split \in Splits /\ c.seen \in Int /\ Status(e) = "RELEASED"
      /\ paid[e] = leaked[e] + Total[c.split] /\ escrows[e].due = Total[c.split]
      /\ balance[e] <= c.seen - Total[c.split]
  BY <1>1, <1>2 DEF CallMoney
<1>4. PICK rest : rest = c.seen - Total[c.split]
  OBVIOUS
<1>5. Total[c.split] \in Int /\ rest \in Int
  <2>1. Total[c.split] \in Nat
    BY <1>3, PrefixFacts
  <2> QED BY <1>3, <1>4, <2>1
<1>6. /\ balance[e] + paid[e] + returned[e] + recovered[e] = Amount
      /\ escrows[e].due \in Int /\ balance[e] >= 0
  BY <1>1, <1>3 DEF Funded
<1>7. /\ Ledgers' /\ Funded(e)' /\ OthersKeep(e)
      /\ e \notin stranded' => balance'[e] = 0
  <2>1. CASE stranded' = stranded \cup {e} /\ UNCHANGED <<balance, returned>>
    <3>1. Ledgers' /\ Funded(e)'
      BY <1>1, <1>2, <2>1 DEF Ledgers, Funded, Status
    <3>2. OthersKeep(e)
      BY <1>2, <2>1 DEF OthersKeep, Kept
    <3> QED BY <2>1, <3>1, <3>2
  <2>2. CASE /\ Transfer(e, Requester, rest)
             /\ returned' = [returned EXCEPT ![e] = @ + rest]
             /\ UNCHANGED stranded
    <3>1. /\ balance' \in [Wallets -> Int] /\ balance[e] >= rest
          /\ balance'[e] = balance[e] - rest
          /\ \A w \in Wallets : w # e /\ w # Requester => balance'[w] = balance[w]
      BY <1>1, <1>5, <2>2, WalletKinds, TransferMoves
    <3>2. /\ returned'[e] = returned[e] + rest /\ returned' \in [EscrowIds -> Int]
          /\ \A f \in EscrowIds \ {e} : returned'[f] = returned[f]
      <4>1. returned[e] + rest \in Int
        BY <1>1, <1>5
      <4> QED BY <1>1, <2>2, <4>1 DEF Ledgers
    <3>3. Ledgers'
      BY <1>1, <1>2, <3>1, <3>2 DEF Ledgers
    <3>4. balance'[e] = 0
      BY <1>1, <1>3, <1>4, <1>5, <3>1
    <3>5. balance'[e] + paid'[e] + returned'[e] + recovered'[e] = Amount
      BY <1>1, <1>2, <1>5, <1>6, <3>1, <3>2
    <3>6. Funded(e)'
      BY <1>2, <1>3, <1>6, <3>4, <3>5 DEF Funded, Status
    <3>7. OthersKeep(e)
      BY <1>2, <2>2, <3>1, <3>2, WalletKinds DEF OthersKeep, Kept
    <3> QED BY <3>3, <3>4, <3>6, <3>7
  <2> QED BY <1>1, <1>4, <2>1, <2>2 DEF Remainder
<1>8. paid'[e] = escrows'[e].due + leaked'[e]
  BY <1>1, <1>2, <1>3, <1>5
<1>9. Settled(e)'
  BY <1>2, <1>3, <1>7, <1>8 DEF Settled, Status
<1>10. Idle.at = "idle" /\ Idle.e = 0
  BY DEF Idle
<1> QED BY <1>1, <1>2, <1>7, <1>9, <1>10, FocusStep

(* A refund empties the wallet: it moves what the call has seen, and the    *)
(* ledger refuses when the recovery has left less.                          *)
LEMMA RefundMoney ==
    ASSUME MoneyInv, EscrowInv', NEW t \in Callers, Refund(t) \/ RefundFails(t)
    PROVE  MoneyInv'
<1>1. PICK c, e : AtWork(t, c, e)
  BY Working DEF Refund, RefundFails
<1> USE DEF AtWork
<1>2. /\ c.at = "refund" /\ UNCHANGED <<paid, recovered, leaked, stranded>>
      /\ op' = [op EXCEPT ![t] = Idle]
  BY <1>1 DEF Refund, RefundFails, Returns, history
<1>3. c.seen \in Int /\ Status(e) = "PENDING" /\ balance[e] <= c.seen
  BY <1>1, <1>2 DEF CallMoney
<1>4. balance[e] + paid[e] + returned[e] + recovered[e] = Amount /\ escrows[e].due = 0
  BY <1>1, <1>3 DEF Funded
<1>5. NoLegs(e)
  BY <1>1, <1>2 DEF NoLegs
<1>6. paid[e] = leaked[e] /\ returned[e] = 0
  BY <1>1, <1>3, <1>5 DEF Settled
<1>7. Idle.at = "idle" /\ Idle.e = 0
  BY DEF Idle
<1>8. CASE RefundFails(t)
  <2>1. UNCHANGED <<balance, escrows, returned>>
    BY <1>8 DEF RefundFails, history
  <2>2. Ledgers' /\ Funded(e)' /\ OthersKeep(e)
    BY <1>1, <1>2, <2>1 DEF Ledgers, Funded, Status, OthersKeep, Kept
  <2>3. Settled(e)'
    BY <1>2, <1>3, <1>6, <2>1 DEF Settled, Status
  <2> QED BY <1>1, <1>2, <1>7, <2>2, <2>3, FocusStep
<1>9. CASE Refund(t)
  <2>1. /\ Transfer(e, Requester, c.seen)
        /\ returned' = [returned EXCEPT ![e] = @ + c.seen]
        /\ escrows' = [escrows EXCEPT ![e].status = "REFUNDED"]
    BY <1>1, <1>9 DEF Refund
  <2>2. /\ balance' \in [Wallets -> Int] /\ balance[e] >= c.seen
        /\ balance'[e] = balance[e] - c.seen
        /\ \A w \in Wallets : w # e /\ w # Requester => balance'[w] = balance[w]
    BY <1>1, <1>3, <2>1, WalletKinds, TransferMoves
  <2>3. /\ returned'[e] = returned[e] + c.seen /\ returned' \in [EscrowIds -> Int]
        /\ \A f \in EscrowIds \ {e} : returned'[f] = returned[f]
    <3>1. returned[e] + c.seen \in Int
      BY <1>1, <1>3
    <3> QED BY <1>1, <2>1, <3>1 DEF Ledgers
  <2>4. /\ escrows'[e].status = "REFUNDED" /\ escrows'[e].due = 0
        /\ \A f \in EscrowIds \ {e} : escrows'[f] = escrows[f]
    BY <1>1, <1>4, <2>1 DEF MoneyInv, EscrowInv, Shape, EscrowFields
  <2>5. Ledgers'
    BY <1>1, <1>2, <2>2, <2>3 DEF Ledgers
  <2>6. balance'[e] = 0
    BY <1>1, <1>3, <2>2
  <2>7. balance'[e] + paid'[e] + returned'[e] + recovered'[e] = Amount
    BY <1>1, <1>2, <1>3, <1>4, <2>2, <2>3
  <2>8. Funded(e)'
    BY <2>4, <2>6, <2>7 DEF Funded, Status
  <2>9. OthersKeep(e)
    BY <1>2, <2>2, <2>3, <2>4, WalletKinds DEF OthersKeep, Kept
  <2>10. Settled(e)'
    BY <1>2, <1>6, <2>4, <2>6 DEF Settled, Status
  <2> QED BY <1>1, <1>2, <1>7, <2>5, <2>8, <2>9, <2>10, FocusStep
<1> QED BY <1>8, <1>9

(* Neither the timeout of a record nor the sweep moves anything of an       *)
(* escrow.                                                                  *)
LEMMA IdleMoney ==
    ASSUME MoneyInv, EscrowInv',
           UNCHANGED <<op, balance, paid, returned, recovered, leaked, stranded>>,
           \A f \in EscrowIds : /\ escrows'[f].status = escrows[f].status
                                /\ escrows'[f].due = escrows[f].due
                                /\ escrows'[f].job = escrows[f].job
    PROVE  MoneyInv'
<1>1. ASSUME NEW f \in EscrowIds PROVE Local(f)'
  BY LocalFrame DEF MoneyInv, Kept
<1>2. Ledgers' /\ Named'
  BY DEF MoneyInv, Ledgers, Named
<1> QED BY <1>1, <1>2 DEF MoneyInv

(* The recovery takes from a wallet, that of a live escrow too and also in  *)
(* the middle of a call: what a call counts on only gets less, and a wallet *)
(* that should be empty is.                                                 *)
LEMMA RecoverMoney ==
    ASSUME MoneyInv, EscrowInv', NEW e \in EscrowIds, NEW b \in 1 .. Amount,
           RecoverWallet(e, b)
    PROVE  MoneyInv'
<1>1. /\ Transfer(e, Requester, b) /\ b \in Int /\ b > 0
      /\ recovered' = [recovered EXCEPT ![e] = @ + b]
      /\ UNCHANGED <<escrows, op, paid, returned, leaked, stranded>>
  BY PaymentEscrowAssumption DEF RecoverWallet
<1>2. /\ Ledgers /\ Funded(e) /\ Settled(e) /\ balance[e] \in Int /\ paid[e] \in Int
      /\ returned[e] \in Int /\ recovered[e] \in Int
      /\ e # Requester /\ e \in Wallets /\ Requester \in Wallets
  BY WalletKinds DEF MoneyInv, Local, Ledgers
<1>3. /\ balance' \in [Wallets -> Int] /\ balance[e] >= b
      /\ balance'[e] = balance[e] - b
      /\ \A w \in Wallets : w # e /\ w # Requester => balance'[w] = balance[w]
  BY <1>1, <1>2, TransferMoves
<1>4. /\ recovered'[e] = recovered[e] + b /\ recovered' \in [EscrowIds -> Int]
      /\ \A f \in EscrowIds \ {e} : recovered'[f] = recovered[f]
  <2>1. recovered[e] + b \in Int
    BY <1>1, <1>2
  <2> QED BY <1>1, <1>2, <2>1 DEF Ledgers
<1>5. Ledgers' /\ Named'
  BY <1>1, <1>2, <1>3, <1>4 DEF Ledgers, MoneyInv, Named
<1>6. balance[e] # 0 /\ balance'[e] >= 0 /\ balance'[e] <= balance[e]
  BY <1>1, <1>2, <1>3
<1>7. /\ Status(e) # "none"
      /\ balance[e] + paid[e] + returned[e] + recovered[e] = Amount
  BY <1>2, <1>6 DEF Funded
<1>8. Funded(e)'
  <2>1. balance'[e] + paid'[e] + returned'[e] + recovered'[e] = Amount
    BY <1>1, <1>2, <1>3, <1>4, <1>7
  <2> QED BY <1>1, <1>2, <1>6, <1>7, <2>1 DEF Funded, Status
<1>9. Settled(e)'
  <2>1. Status(e)' = Status(e) /\ NoLegs(e)' = NoLegs(e) /\ Quiet(e)' = Quiet(e)
    BY <1>1 DEF Status, NoLegs, Quiet
  <2>2. Status(e) # "REFUNDED" /\ (Status(e) = "RELEASED" /\ Quiet(e) => e \in stranded)
    BY <1>2, <1>6 DEF Settled
  <2> QED BY <1>1, <1>2, <2>1, <2>2 DEF Settled
<1>10. ASSUME NEW t \in Callers, op'[t].e = e PROVE CallMoney(op[t], e)'
  <2>1. PICK c : c = op[t]
    OBVIOUS
  <2>2. op'[t] = c /\ CallMoney(c, e)
    BY <1>1, <1>10, <2>1 DEF MoneyInv, Local
  <2>3. Status(e)' = Status(e) /\ escrows'[e] = escrows[e]
    BY <1>1 DEF Status
  <2>4. ASSUME NEW x \in Int, balance[e] <= x PROVE balance'[e] <= x
    BY <1>2, <1>3, <1>6, <2>4
  <2>5. c.at = "refund" => balance'[e] <= c.seen
    BY <2>2, <2>4 DEF CallMoney
  <2>6. c.at = "legs" => balance'[e] <= c.seen - Prefix(c.split, c.k)
    <3>1. SUFFICES ASSUME c.at = "legs"
                   PROVE  balance'[e] <= c.seen - Prefix(c.split, c.k)
      OBVIOUS
    <3>2. /\ c.split \in Splits /\ c.k \in 0 .. Len(c.split) - 1 /\ c.seen \in Int
          /\ balance[e] <= c.seen - Prefix(c.split, c.k)
      BY <2>2, <3>1 DEF CallMoney
    <3>3. Len(c.split) \in Nat /\ \A k \in 0 .. Len(c.split) : Prefix(c.split, k) \in Nat
      BY <3>2, PrefixFacts
    <3>4. c.k \in 0 .. Len(c.split)
      BY <3>2, <3>3
    <3>5. c.seen - Prefix(c.split, c.k) \in Int
      BY <3>2, <3>3, <3>4
    <3> QED BY <2>4, <3>2, <3>5
  <2>7. c.at = "remainder" => balance'[e] <= c.seen - Total[c.split]
    <3>1. SUFFICES ASSUME c.at = "remainder"
                   PROVE  balance'[e] <= c.seen - Total[c.split]
      OBVIOUS
    <3>2. /\ c.split \in Splits /\ c.seen \in Int
          /\ balance[e] <= c.seen - Total[c.split]
      BY <2>2, <3>1 DEF CallMoney
    <3>3. Total[c.split] \in Nat
      BY <3>2, PrefixFacts
    <3>4. c.seen - Total[c.split] \in Int
      BY <3>2, <3>3
    <3> QED BY <2>4, <3>2, <3>4
  <2>8. paid'[e] = paid[e] /\ leaked'[e] = leaked[e]
    BY <1>1
  <2> QED BY <2>2, <2>3, <2>5, <2>6, <2>7, <2>8 DEF CallMoney
<1>11. Local(e)'
  BY <1>8, <1>9, <1>10 DEF Local
<1>12. OthersKeep(e)
  BY <1>1, <1>3, <1>4, WalletKinds DEF OthersKeep, Kept
<1>13. \A t \in Callers : op'[t] = op[t]
  BY <1>1
<1> QED BY <1>5, <1>11, <1>12, <1>13, MoneyStep

(* A restart forgets the calls: what one had paid has leaked, and what one  *)
(* had still to return is stranded.                                         *)
LEMMA RestartMoney ==
    ASSUME MoneyInv, EscrowInv', Restart
    PROVE  MoneyInv'
<1>1. /\ UNCHANGED <<balance, paid, returned, recovered>>
      /\ \A t \in Callers : op'[t] = Idle
      /\ leaked' = [e \in EscrowIds |-> IF Status(e) = "PENDING" THEN paid[e] ELSE leaked[e]]
  BY DEF Restart, history
<1>2. Idle.at = "idle" /\ Idle.e = 0 /\ 0 \notin EscrowIds
  BY WalletKinds DEF Idle
<1>3. Ledgers' /\ Named'
  BY <1>1, <1>2 DEF MoneyInv, Ledgers, Named
<1>4. ASSUME NEW f \in EscrowIds PROVE Local(f)'
  <2>1. Funded(f) /\ Settled(f) /\ \A t \in Callers : op[t].e = f => CallMoney(op[t], f)
    BY DEF MoneyInv, Local
  <2>2. /\ escrows'[f].status = IF Status(f) = "PENDING" THEN "lost" ELSE Status(f)
        /\ escrows'[f].due = escrows[f].due
    BY DEF Restart, MoneyInv, EscrowInv, Shape, EscrowFields, Status
  <2>3. leaked'[f] = IF Status(f) = "PENDING" THEN paid[f] ELSE leaked[f]
    BY <1>1
  <2>4. Funded(f)'
    BY <1>1, <2>1, <2>2, <2>3 DEF Funded, Status
  <2>5. ASSUME f \notin stranded', Status(f) = "RELEASED" PROVE Quiet(f) /\ f \notin stranded
    <3>1. SUFFICES ASSUME NEW t \in Callers, op[t].e = f PROVE FALSE
      BY <2>5 DEF Quiet, Restart
    <3>2. op[t].at = "remainder"
      BY <2>1, <2>5, <3>1 DEF CallMoney
    <3> QED BY <2>5, <3>1, <3>2 DEF Restart
  <2>6. Status(f) = "RELEASED" => paid[f] = escrows[f].due + leaked[f]
    <3>1. SUFFICES ASSUME Status(f) = "RELEASED" PROVE paid[f] = escrows[f].due + leaked[f]
      OBVIOUS
    <3>2. CASE Quiet(f)
      BY <2>1, <3>1, <3>2 DEF Settled
    <3>3. CASE ~Quiet(f)
      <4>1. PICK t \in Callers : op[t].e = f
        BY <3>3 DEF Quiet
      <4>2. PICK c : c = op[t]
        OBVIOUS
      <4>3. /\ c.split \in Splits /\ paid[f] = leaked[f] + Total[c.split]
            /\ escrows[f].due = Total[c.split]
        BY <2>1, <3>1, <4>1, <4>2 DEF CallMoney
      <4>4. Total[c.split] \in Nat /\ leaked[f] \in Int
        BY <4>3, PrefixFacts DEF MoneyInv, Ledgers
      <4> QED BY <4>3, <4>4
    <3> QED BY <3>2, <3>3
  <2>7. Settled(f)'
    <3>1. Status(f)' = IF Status(f) = "PENDING" THEN "lost" ELSE Status(f)
      BY <2>2 DEF Status
    <3>2. CASE Status(f) = "PENDING"
      BY <1>1, <2>1, <2>3, <3>1, <3>2 DEF Settled
    <3>3. CASE Status(f) = "RELEASED"
      BY <1>1, <2>1, <2>2, <2>3, <2>5, <2>6, <3>1, <3>3 DEF Settled
    <3>4. CASE Status(f) \notin {"PENDING", "RELEASED"}
      BY <1>1, <2>1, <2>3, <3>1, <3>4 DEF Settled
    <3> QED BY <3>2, <3>3, <3>4
  <2>8. \A t \in Callers : op'[t].e # f
    BY <1>1, <1>2
  <2> QED BY <2>4, <2>7, <2>8 DEF Local
<1> QED BY <1>3, <1>4 DEF MoneyInv

(* Before the first escrow. *)
LEMMA MoneyInit ==
    ASSUME Init
    PROVE  MoneyInv
<1>1. EscrowInv
  BY EscrowInvInit
<1>2. Ledgers
  BY PaymentEscrowAssumption DEF Init, Ledgers
<1>3. Named
  BY DEF Init, Named, Idle
<1>4. ASSUME NEW e \in EscrowIds PROVE Local(e)
  <2>1. /\ Status(e) = "none" /\ escrows[e].due = 0 /\ balance[e] = 0
        /\ paid[e] = 0 /\ returned[e] = 0 /\ recovered[e] = 0 /\ leaked[e] = 0
    BY WalletKinds DEF Init, NoEscrow, Status
  <2>2. \A t \in Callers : op[t].e # e
    BY WalletKinds DEF Init, Idle
  <2> QED BY <2>1, <2>2 DEF Local, Funded, Settled
<1> QED BY <1>1, <1>2, <1>3, <1>4 DEF MoneyInv

(* Every step keeps the money where it is accounted for. *)
LEMMA MoneyNext ==
    ASSUME MoneyInv, [Next]_vars
    PROVE  MoneyInv'
<1>1. EscrowInv'
  BY NextKeeps DEF MoneyInv
<1>2. Sweeper \in Callers /\ Tasks \subseteq Callers
  BY DEF Callers
<1>3. ASSUME UNCHANGED <<balance, escrows, op, history, leaked, stranded>>
      PROVE  MoneyInv'
  BY <1>1, <1>3, IdleMoney DEF history
<1>4. ASSUME NEW t \in Callers, NEW j \in Jobs, BeginCreate(t, j)
      PROVE  MoneyInv'
  <2> DEFINE d == [Idle EXCEPT !.at = "create", !.job = j]
  <2>1. /\ op' = [op EXCEPT ![t] = d] /\ op[t].at = "idle"
        /\ UNCHANGED <<balance, escrows, paid, returned, recovered, leaked, stranded>>
    BY <1>4 DEF BeginCreate, MayCreate, history
  <2>2. d.e = 0 /\ d.at = "create" /\ op[t].e = 0
    BY <2>1 DEF Idle, MoneyInv, Named
  <2> HIDE DEF d
  <2> QED BY <1>1, <2>1, <2>2, OpensMoney
<1>5. ASSUME NEW j \in Jobs, NothingToRefund(j)
      PROVE  MoneyInv'
  <2>1. /\ op' = [op EXCEPT ![Sweeper] = Idle] /\ op[Sweeper].at = "idle"
        /\ UNCHANGED <<balance, escrows, paid, returned, recovered, leaked, stranded>>
    BY <1>5 DEF NothingToRefund, MayRefund, Returns, history
  <2>2. Idle.e = 0 /\ Idle.at = "idle" /\ op[Sweeper].e = 0
    BY <1>2, <2>1 DEF Idle, MoneyInv, Named
  <2> QED BY <1>1, <1>2, <2>1, <2>2, OpensMoney
<1>6. CASE \E t \in Tasks, j \in Jobs :
              \/ BeginCreate(t, j) \/ BeginRefund(t, j)
              \/ \E split \in Splits : BeginRelease(t, j, split)
  BY <1>1, <1>2, <1>4, <1>6, BeginRefundMoney, ReleaseMoney
<1>7. CASE \E t \in Callers : Proceed(t)
  BY <1>1, <1>7, CreateMoney, PayLegMoney, LegFailsMoney, CompensateMoney,
     RemainderMoney, RefundMoney DEF Proceed
<1>8. CASE BeginSweep \/ SweepCheck
  BY <1>3, <1>8 DEF BeginSweep, SweepCheck
<1>9. CASE SweepWaits
  BY <1>1, <1>2, <1>5, <1>9, BeginRefundMoney DEF SweepWaits
<1>10. ASSUME NEW e \in EscrowIds, Expire(e)
       PROVE  MoneyInv'
  <2>1. /\ escrows' = [escrows EXCEPT ![e].expired = TRUE]
        /\ UNCHANGED <<balance, op, paid, returned, recovered, leaked, stranded>>
    BY <1>10 DEF Expire, history
  <2>2. \A f \in EscrowIds : /\ escrows'[f].status = escrows[f].status
                             /\ escrows'[f].due = escrows[f].due
                             /\ escrows'[f].job = escrows[f].job
    BY <2>1 DEF MoneyInv, EscrowInv, Shape, EscrowFields
  <2> QED BY <1>1, <2>1, <2>2, IdleMoney
<1>11. CASE \E e \in EscrowIds : Expire(e) \/ \E read \in 1 .. Amount : RecoverWallet(e, read)
  BY <1>1, <1>10, <1>11, RecoverMoney
<1>12. CASE UNCHANGED vars
  BY <1>3, <1>12 DEF vars
<1> QED BY <1>1, <1>6, <1>7, <1>8, <1>9, <1>11, <1>12, RestartMoney DEF Next

(* Whatever calls, sweeps, recoveries of live wallets, errors and restarts  *)
(* interleave: while no call works on an escrow, its amount is in the       *)
(* wallet, with recipients, back or recovered; recipients have exactly the  *)
(* released split, and beyond it only what failed releases leaked; a        *)
(* pending escrow has lost nothing to a refund; a settled one has an empty  *)
(* wallet, unless its remainder raised (_release_escrow_split_locked,       *)
(* _refund_escrow_locked, recover_orphan_escrows).                          *)
THEOREM EscrowIsWhole == Spec => []EscrowAccounted
<1>1. ASSUME MoneyInv PROVE EscrowAccounted
  <2> SUFFICES ASSUME NEW e \in EscrowIds, Status(e) # "none", Quiet(e)
               PROVE  /\ paid[e] = escrows[e].due + leaked[e]
                      /\ balance[e] + paid[e] + returned[e] + recovered[e] = Amount
                      /\ Status(e) \in {"PENDING", "lost"} => returned[e] = 0
                      /\ Status(e) = "REFUNDED" => balance[e] = 0
                      /\ Status(e) = "RELEASED" /\ e \notin stranded => balance[e] = 0
    BY DEF EscrowAccounted, Created
  <2>1. Funded(e) /\ Settled(e) /\ leaked[e] \in Int
    BY <1>1 DEF MoneyInv, Local, Ledgers
  <2>2. NoLegs(e)
    BY DEF NoLegs, Quiet
  <2>3. paid[e] = escrows[e].due + leaked[e]
    <3>1. CASE Status(e) = "RELEASED"
      BY <2>1, <3>1 DEF Settled
    <3>2. CASE Status(e) # "RELEASED"
      <4>1. escrows[e].due = 0 /\ paid[e] = leaked[e]
        BY <2>1, <2>2, <3>2 DEF Funded, Settled
      <4> QED BY <2>1, <4>1
    <3> QED BY <3>1, <3>2
  <2> QED BY <2>1, <2>3 DEF Funded, Settled
<1>2. Init => MoneyInv
  BY MoneyInit
<1>3. MoneyInv /\ [Next]_vars => MoneyInv'
  BY MoneyNext
<1> QED BY <1>1, <1>2, <1>3, PTL DEF Spec
================================================================================
