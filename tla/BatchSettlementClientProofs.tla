---------------------- MODULE BatchSettlementClientProofs ----------------------
(****************************************************************************)
(* Proofs about BatchSettlementClient: its types, that no commit is         *)
(* stranded, and that the client implements ReceiptSettlement, for any      *)
(* receipts, keys, failing saves, number of transactions and of crashes.    *)
(****************************************************************************)
EXTENDS BatchSettlementClient, FiniteSetTheorems, TLAPS

--------------------------------------------------------------------------------
(****************************************************************************)
(* Batches of receipts                                                      *)
(****************************************************************************)

(* A root is a sequence of distinct receipts, no longer than there are any. *)
LEMMA InRoots ==
    ASSUME NEW s
    PROVE  s \in Roots <=> \E n \in 0 .. Cardinality(Receipts) :
                              s \in [1 .. n -> Receipts] /\ IsInjective(s)
  BY DEF Roots

(* A sequence is a function on its indices. *)
LEMMA SeqIsFunction ==
    ASSUME NEW S, NEW q \in Seq(S)
    PROVE  q \in [1 .. Len(q) -> S]
  OBVIOUS

(* The empty batch is one. *)
LEMMA EmptyRoot == <<>> \in Roots /\ Range(<<>>) = {}
<1>1. 0 \in 0 .. Cardinality(Receipts)
  BY ClientAssumption, FS_CardinalityType
<1>2. <<>> \in [1 .. 0 -> Receipts]
  OBVIOUS
<1>3. IsInjective(<<>>)
  BY DEF IsInjective
<1>4. Range(<<>>) = {}
  BY DEF Range
<1> QED
  BY <1>1, <1>2, <1>3, <1>4, InRoots

(* A batch holds receipts, and some unless it is empty. *)
LEMMA RootHoldsReceipts ==
    ASSUME NEW s \in Roots
    PROVE  /\ s \in Seq(Receipts)
           /\ IsInjective(s)
           /\ Range(s) \subseteq Receipts
           /\ s # <<>> => Range(s) # {}
<1>1. PICK n \in 0 .. Cardinality(Receipts) : s \in [1 .. n -> Receipts] /\ IsInjective(s)
  BY InRoots
<1>2. s \in Seq(Receipts) /\ Len(s) = n
  BY <1>1
<1>3. Range(s) \subseteq Receipts
  BY <1>1 DEF Range
<1>4. ASSUME s # <<>> PROVE Range(s) # {}
  <2>1. 1 \in DOMAIN s
    BY <1>1, <1>2, <1>4
  <2> QED
    BY <2>1 DEF Range
<1> QED
  BY <1>1, <1>2, <1>3, <1>4

(* A new receipt at the end of a batch makes a batch (Accumulate): the      *)
(* receipts bound its length, since they are distinct.                      *)
LEMMA AppendToRoot ==
    ASSUME NEW s \in Roots, NEW r \in Receipts, r \notin Range(s)
    PROVE  Append(s, r) \in Roots /\ Range(Append(s, r)) = Range(s) \cup {r}
<1> DEFINE a == Append(s, r)
           n == Len(s) + 1
<1>1. s \in Seq(Receipts) /\ IsInjective(s) /\ Range(s) \subseteq Receipts
  BY RootHoldsReceipts
<1>2. n \in Nat /\ Len(s) \in Nat /\ a[n] = r /\ \A i \in 1 .. Len(s) : a[i] = s[i]
  BY <1>1
<1>3. a \in Seq(Receipts) /\ Len(a) = n
  BY <1>1
<1>4. DOMAIN s = 1 .. Len(s) /\ DOMAIN a = 1 .. n
  BY <1>1, <1>3
<1>5. a \in [1 .. n -> Receipts]
  BY <1>3, SeqIsFunction
<1> HIDE DEF a
<1>6. IsInjective(a)
  BY <1>1, <1>2, <1>4 DEF IsInjective, Range
<1>7. n \in 0 .. Cardinality(Receipts)
  <2>1. a \in Injection(1 .. n, Receipts)
    BY <1>5, <1>6 DEF Injection
  <2>2. Cardinality(1 .. n) = n
    BY <1>2, FS_Interval
  <2>3. Cardinality(1 .. n) <= Cardinality(Receipts) /\ Cardinality(Receipts) \in Nat
    BY <2>1, ClientAssumption, FS_Injection, FS_CardinalityType
  <2> QED
    BY <1>2, <2>2, <2>3
<1>8. Range(a) = Range(s) \cup {r}
  <2>1. \A x : x \in Range(a) <=> \E i \in 1 .. n : x = a[i]
    BY <1>4 DEF Range
  <2>2. \A x : x \in Range(s) <=> \E i \in 1 .. Len(s) : x = s[i]
    BY <1>4 DEF Range
  <2>3. \A i : i \in 1 .. n <=> i \in 1 .. Len(s) \/ i = n
    BY <1>2
  <2> QED
    BY <1>2, <2>1, <2>2, <2>3
<1>9. a \in Roots
  BY <1>5, <1>6, <1>7, InRoots
<1> QED
  BY <1>8, <1>9 DEF a

--------------------------------------------------------------------------------
(****************************************************************************)
(* A state of the client that is safe to restart from                       *)
(****************************************************************************)

(* The transactions of T that are, or may still become, a batch on chain. *)
LiveIn(T) == {t \in DOMAIN T : T[t].status \in {"mempool", "landed"}}

(* A batch holds receipts of its own key only. *)
Keyed(m) == \A k \in Keys : \A r \in Range(m.accumulator[k]) : KeyOf[r] = k

(* Every receipt of a live transaction is in the dedup ledger. *)
Ledgered(m, T) == \A t \in LiveIn(T) : Range(T[t].root) \subseteq m.committedEscrowIds

(* Every live transaction is tracked, quarantined or covered by an intent. *)
Known(m, T) ==
    \A t \in LiveIn(T) :
        \/ t \in m.tracked
        \/ t \in m.pendingCommits
        \/ [key |-> T[t].key, root |-> T[t].root] \in m.committing

(* What is tracked has landed. *)
TrackedLanded(m, T) == \A t \in m.tracked : t \in DOMAIN T /\ T[t].status = "landed"

(* What a restart restores is in no live transaction. *)
Restorable(m, T) ==
    \A k \in Keys : (\A intent \in m.committing : intent.key # k) =>
        \A t \in LiveIn(T) : Range(m.accumulator[k]) \cap Range(T[t].root) = {}

(* The memory and the state file are both safe at all times. *)
Safe(m, T) ==
    /\ Keyed(m)
    /\ Ledgered(m, T)
    /\ Known(m, T)
    /\ TrackedLanded(m, T)
    /\ Restorable(m, T)

(* What waits in the accumulator is in no live transaction, save the one    *)
(* whose answer is awaited.                                                 *)
WaitingInv ==
    \A k \in Keys : \A t \in LiveIn(txs) :
        \/ Range(accumulator[k]) \cap Range(txs[t].root) = {}
        \/ commit.at = "wait" /\ t = commit.tx

(* From the saved intent to the answer, intent and ids are on disk, and the *)
(* accumulator holds what was broadcast.                                    *)
CommitInv ==
    /\ commit.at # "idle" =>
        /\ commit.key \in Keys
        /\ accumulator[commit.key] # <<>>
        /\ Intent(commit.key) \in committing \cap disk.committing
        /\ Range(accumulator[commit.key])
              \subseteq committedEscrowIds \cap disk.committedEscrowIds
    /\ commit.at = "wait" =>
        /\ commit.tx \in DOMAIN txs
        /\ txs[commit.tx].key = commit.key
        /\ txs[commit.tx].root = accumulator[commit.key]

(* No transaction is empty, and no two live ones share a receipt. *)
OnceInv ==
    /\ \A t \in DOMAIN txs : txs[t].root # <<>>
    /\ \A t, u \in LiveIn(txs) : t # u => Range(txs[t].root) \cap Range(txs[u].root) = {}

(* The inductive invariant: what is in memory and what is on disk both lead *)
(* a restart to every live transaction, and receipts that still wait are in *)
(* none of them.                                                            *)
ClientInv ==
    /\ TypeOK
    /\ Safe(memory, txs)
    /\ Safe(disk, txs)
    /\ WaitingInv
    /\ CommitInv
    /\ OnceInv
    /\ chainFinalized \subseteq LandedTxs

--------------------------------------------------------------------------------
(* Transactions that leave the mempool keep a state safe. *)
LEMMA SafeMono ==
    ASSUME NEW m, NEW T, NEW U, Safe(m, T),
           DOMAIN U = DOMAIN T,
           LiveIn(U) \subseteq LiveIn(T),
           \A t \in DOMAIN T : /\ U[t].root = T[t].root
                               /\ U[t].key = T[t].key
                               /\ T[t].status = "landed" => U[t].status = "landed"
    PROVE  Safe(m, U)
<1>0. \A t \in LiveIn(U) : t \in DOMAIN T
  BY DEF LiveIn
<1>1. Ledgered(m, U)
  BY <1>0 DEF Safe, Ledgered
<1>2. Known(m, U)
  BY <1>0 DEF Safe, Known
<1>3. TrackedLanded(m, U)
  BY DEF Safe, TrackedLanded
<1>4. Restorable(m, U)
  BY <1>0 DEF Safe, Restorable
<1> QED
  BY <1>1, <1>2, <1>3, <1>4 DEF Safe

(* A broadcast keeps every state safe that has its intent and its ids. *)
LEMMA SafeBroadcast ==
    ASSUME NEW m, NEW T, NEW U, Safe(m, T),
           NEW n, n \notin DOMAIN T, DOMAIN U = DOMAIN T \cup {n},
           \A t \in DOMAIN T : U[t] = T[t],
           NEW k \in Keys, NEW root,
           U[n] = [key |-> k, root |-> root, status |-> "mempool"],
           [key |-> k, root |-> root] \in m.committing,
           Range(root) \subseteq m.committedEscrowIds,
           \A r \in Range(root) : KeyOf[r] = k
    PROVE  Safe(m, U)
<1>0. \A t \in LiveIn(U) : (t \in LiveIn(T) /\ U[t] = T[t]) \/ t = n
  BY DEF LiveIn
<1>1. U[n].key = k /\ U[n].root = root
  OBVIOUS
<1>2. Ledgered(m, U)
  BY <1>0, <1>1 DEF Safe, Ledgered
<1>3. Known(m, U)
  BY <1>0, <1>1 DEF Safe, Known
<1>4. TrackedLanded(m, U)
  BY DEF Safe, TrackedLanded
<1>5. Restorable(m, U)
  <2> SUFFICES ASSUME NEW j \in Keys, \A intent \in m.committing : intent.key # j,
                      NEW t \in LiveIn(U)
               PROVE  Range(m.accumulator[j]) \cap Range(U[t].root) = {}
    BY DEF Restorable
  <2>1. j # k
    OBVIOUS
  <2>2. CASE t = n
    BY <1>1, <2>1, <2>2 DEF Safe, Keyed
  <2>3. CASE t \in LiveIn(T) /\ U[t] = T[t]
    BY <2>3 DEF Safe, Restorable
  <2> QED
    BY <1>0, <2>2, <2>3
<1> QED
  BY <1>2, <1>3, <1>4, <1>5 DEF Safe

(* Popping a batch keeps a state safe. *)
LEMMA SafePop ==
    ASSUME NEW m, NEW T, Safe(m, T), NEW q, NEW k \in Keys,
           m.accumulator \in [Keys -> Roots],
           q.accumulator = [m.accumulator EXCEPT ![k] = <<>>],
           q.committing = m.committing,
           q.pendingCommits = m.pendingCommits,
           q.tracked = m.tracked,
           q.committedEscrowIds = m.committedEscrowIds
    PROVE  Safe(q, T)
<1>1. \A j \in Keys : Range(q.accumulator[j]) \subseteq Range(m.accumulator[j])
  BY EmptyRoot
<1>2. Keyed(q) /\ Restorable(q, T)
  BY <1>1 DEF Safe, Keyed, Restorable
<1>3. Ledgered(q, T) /\ Known(q, T) /\ TrackedLanded(q, T)
  BY DEF Safe, Ledgered, Known, TrackedLanded
<1> QED
  BY <1>2, <1>3 DEF Safe

(* What the memory record holds. *)
LEMMA MemoryFields ==
    /\ memory.accumulator = accumulator
    /\ memory.committing = committing
    /\ memory.pendingCommits = pendingCommits
    /\ memory.tracked = tracked
    /\ memory.finalizedIds = finalizedIds
    /\ memory.committedEscrowIds = committedEscrowIds
  BY DEF memory

(* The same after a step. *)
LEMMA MemoryFieldsNext ==
    /\ memory'.accumulator = accumulator'
    /\ memory'.committing = committing'
    /\ memory'.pendingCommits = pendingCommits'
    /\ memory'.tracked = tracked'
    /\ memory'.finalizedIds = finalizedIds'
    /\ memory'.committedEscrowIds = committedEscrowIds'
  BY DEF memory

(* The types, variable by variable. *)
CommitType == [at : {"idle", "send", "wait"}, key : Keys \cup {NoKey}, tx : TxIds \cup {0}]

(* A transaction: its key, its receipts and its fate. *)
TxType == [key : Keys, root : Roots, status : TxStatus]

(* The client's state in memory is well typed exactly when each of its      *)
(* parts is.                                                                *)
LEMMA MemoryType ==
    memory \in Memory <=> /\ accumulator \in [Keys -> Roots]
                          /\ committing \subseteq [key : Keys, root : Roots]
                          /\ pendingCommits \subseteq TxIds
                          /\ tracked \subseteq TxIds
                          /\ finalizedIds \subseteq TxIds
                          /\ committedEscrowIds \subseteq Receipts
  BY DEF memory, Memory

(* The same after a step. *)
LEMMA MemoryTypeNext ==
    memory' \in Memory <=> /\ accumulator' \in [Keys -> Roots]
                           /\ committing' \subseteq [key : Keys, root : Roots]
                           /\ pendingCommits' \subseteq TxIds
                           /\ tracked' \subseteq TxIds
                           /\ finalizedIds' \subseteq TxIds
                           /\ committedEscrowIds' \subseteq Receipts
  BY DEF memory, Memory

(* Transactions are numbered from one. *)
LEMMA TxDomain ==
    ASSUME TypeOK
    PROVE  /\ DOMAIN txs = 1 .. Len(txs)
           /\ Len(txs) \in Nat
           /\ DOMAIN txs \subseteq TxIds
           /\ \A t \in DOMAIN txs : txs[t] \in TxType
<1>1. txs \in Seq(TxType) /\ Len(txs) <= MaxTx
  BY DEF TypeOK, TxType
<1> QED
  BY <1>1, ClientAssumption DEF TxIds

(* Landed transactions are live. *)
LEMMA LandedIsLive == \A t : t \in LandedTxs <=> t \in DOMAIN txs /\ txs[t].status = "landed"
  BY DEF LandedTxs, Landed

(* A step that leaves the lock free and the chain alone needs only a safe   *)
(* memory, whose accumulator is in no live transaction; the state file is   *)
(* the old one or this memory.                                              *)
LEMMA UnlockedStep ==
    ASSUME ClientInv,
           txs' = txs, chainFinalized' = chainFinalized, crashes' = crashes,
           commit' \in CommitType, commit'.at = "idle",
           memory' \in Memory, Safe(memory', txs),
           disk' = disk \/ disk' = memory',
           \A k \in Keys : \A t \in LiveIn(txs) :
               Range(accumulator'[k]) \cap Range(txs[t].root) = {}
    PROVE  ClientInv'
<1>1. TypeOK'
  BY DEF ClientInv, TypeOK, CommitType
<1>2. Safe(memory, txs)' /\ Safe(disk, txs)'
  BY DEF ClientInv
<1>3. WaitingInv' /\ CommitInv'
  BY DEF WaitingInv, CommitInv
<1>4. OnceInv'
  BY DEF ClientInv, OnceInv
<1>5. (chainFinalized \subseteq LandedTxs)'
  BY DEF ClientInv, LandedTxs, Landed
<1> QED
  BY <1>1, <1>2, <1>3, <1>4, <1>5 DEF ClientInv

(* The invariant holds at the start. *)
LEMMA ClientInvInit == Init => ClientInv
<1> SUFFICES ASSUME Init PROVE ClientInv
  OBVIOUS
<1>1. memory \in Memory
  BY MemoryType, EmptyRoot DEF Init
<1>2. TypeOK
  BY <1>1, ClientAssumption DEF Init, TypeOK, Idle
<1>3. LiveIn(txs) = {}
  BY DEF Init, LiveIn
<1>4. Safe(memory, txs)
  BY <1>3, MemoryFields, EmptyRoot
     DEF Init, Safe, Keyed, Ledgered, Known, TrackedLanded, Restorable
<1>5. disk = memory
  BY DEF Init
<1>6. WaitingInv /\ OnceInv
  BY <1>3 DEF Init, WaitingInv, OnceInv
<1>7. CommitInv
  BY DEF Init, CommitInv, Idle
<1> QED
  BY <1>2, <1>4, <1>5, <1>6, <1>7 DEF ClientInv, Init

--------------------------------------------------------------------------------
(****************************************************************************)
(* Steps that leave the transactions alone                                  *)
(****************************************************************************)

(* A save stores the memory or leaves the file. *)
LEMMA PersistOutcome ==
    ASSUME NEW ok \in PersistOutcomes, Persist(ok)
    PROVE  disk' = disk \/ disk' = memory'
  BY DEF Persist

(* With the lock free, the accumulator is in no live transaction. *)
LEMMA UnlockedDisjoint ==
    ASSUME ClientInv, Unlocked
    PROVE  \A k \in Keys : \A t \in LiveIn(txs) :
               Range(accumulator[k]) \cap Range(txs[t].root) = {}
  BY DEF ClientInv, WaitingInv, Unlocked

(* A receipt that is not in the ledger is in no live transaction. *)
LEMMA AccumulateStep ==
    ASSUME ClientInv, NEW r \in Receipts, NEW ok \in PersistOutcomes, Accumulate(r, ok)
    PROVE  ClientInv'
<1> DEFINE k == KeyOf[r]
<1>1. k \in Keys /\ accumulator \in [Keys -> Roots] /\ memory \in Memory
  BY ClientAssumption, MemoryType DEF ClientInv, TypeOK
<1>2. /\ committing' = committing
      /\ pendingCommits' = pendingCommits
      /\ tracked' = tracked
      /\ finalizedIds' = finalizedIds
      /\ committedEscrowIds' = committedEscrowIds
      /\ commit' = commit /\ commit.at = "idle"
      /\ txs' = txs /\ chainFinalized' = chainFinalized /\ crashes' = crashes
      /\ disk' = disk \/ disk' = memory'
      /\ r \notin committedEscrowIds
  BY PersistOutcome DEF Accumulate, Unlocked, chainVars
<1>3. /\ accumulator' \in [Keys -> Roots]
      /\ \A j \in Keys : \/ Range(accumulator'[j]) = Range(accumulator[j])
                         \/ j = k /\ Range(accumulator'[j]) = Range(accumulator[j]) \cup {r}
  <2>1. CASE r \in Range(accumulator[k])
    BY <1>1, <2>1 DEF Accumulate
  <2>2. CASE r \notin Range(accumulator[k])
    <3>1. accumulator' = [accumulator EXCEPT ![k] = Append(accumulator[k], r)]
      BY <2>2 DEF Accumulate
    <3>2. /\ Append(accumulator[k], r) \in Roots
          /\ Range(Append(accumulator[k], r)) = Range(accumulator[k]) \cup {r}
      BY <1>1, <2>2, AppendToRoot
    <3> HIDE DEF k
    <3> QED
      BY <1>1, <3>1, <3>2
  <2> QED
    BY <2>1, <2>2
<1>4. memory' \in Memory
  BY <1>1, <1>2, <1>3, MemoryType, MemoryTypeNext
<1>5. \A t \in LiveIn(txs) : r \notin Range(txs[t].root)
  BY <1>2, MemoryFields DEF ClientInv, Safe, Ledgered
<1>6. \A j \in Keys : \A t \in LiveIn(txs) :
          Range(accumulator'[j]) \cap Range(txs[t].root) = {}
  BY <1>2, <1>3, <1>5, UnlockedDisjoint DEF Unlocked
<1>7. Safe(memory', txs)
  <2>1. Keyed(memory')
    BY <1>1, <1>3, MemoryFields, MemoryFieldsNext DEF ClientInv, Safe, Keyed
  <2>2. Ledgered(memory', txs) /\ Known(memory', txs) /\ TrackedLanded(memory', txs)
    BY <1>2, MemoryFields, MemoryFieldsNext
       DEF ClientInv, Safe, Ledgered, Known, TrackedLanded
  <2>3. Restorable(memory', txs)
    BY <1>6, MemoryFieldsNext DEF Restorable
  <2> QED
    BY <2>1, <2>2, <2>3 DEF Safe
<1>8. commit' \in CommitType
  BY <1>2 DEF ClientInv, TypeOK, CommitType
<1> QED
  BY <1>2, <1>4, <1>6, <1>7, <1>8, UnlockedStep

(* Arming the ids and the intent only adds to both; when the save succeeds  *)
(* they are on disk before anything is sent.                                *)
LEMMA BeginCommitStep ==
    ASSUME ClientInv, NEW k \in Keys, NEW ok \in PersistOutcomes, BeginCommit(k, ok)
    PROVE  ClientInv'
<1>1. accumulator \in [Keys -> Roots] /\ memory \in Memory
  BY MemoryType DEF ClientInv, TypeOK
<1>2. /\ accumulator' = accumulator /\ accumulator[k] # <<>>
      /\ committing' = committing \cup {[key |-> k, root |-> accumulator[k]]}
      /\ pendingCommits' = pendingCommits
      /\ tracked' = tracked
      /\ finalizedIds' = finalizedIds
      /\ committedEscrowIds' = committedEscrowIds \cup Range(accumulator[k])
      /\ txs' = txs /\ chainFinalized' = chainFinalized /\ crashes' = crashes
      /\ disk' = disk \/ disk' = memory'
      /\ ok \in BOOLEAN
  BY PersistOutcome, ClientAssumption DEF BeginCommit, Intent, ArmedIds, chainVars
<1>3. memory' \in Memory
  <2>1. [key |-> k, root |-> accumulator[k]] \in [key : Keys, root : Roots]
    BY <1>1
  <2>2. Range(accumulator[k]) \subseteq Receipts
    BY <1>1, RootHoldsReceipts
  <2> QED
    BY <1>1, <1>2, <2>1, <2>2, MemoryType, MemoryTypeNext
<1>4. \A j \in Keys : \A t \in LiveIn(txs) :
          Range(accumulator'[j]) \cap Range(txs[t].root) = {}
  BY <1>2, UnlockedDisjoint DEF BeginCommit
<1>5. Safe(memory', txs)
  <2>1. Keyed(memory')
    BY <1>2, MemoryFields, MemoryFieldsNext DEF ClientInv, Safe, Keyed
  <2>2. Ledgered(memory', txs) /\ Known(memory', txs) /\ TrackedLanded(memory', txs)
    BY <1>2, MemoryFields, MemoryFieldsNext
       DEF ClientInv, Safe, Ledgered, Known, TrackedLanded
  <2>3. Restorable(memory', txs)
    BY <1>4, MemoryFieldsNext DEF Restorable
  <2> QED
    BY <2>1, <2>2, <2>3 DEF Safe
<1>6. CASE ~ok
  <2>1. commit' = Idle /\ Idle \in CommitType /\ Idle.at = "idle"
    BY <1>6 DEF BeginCommit, Idle, CommitType
  <2> QED
    BY <1>2, <1>3, <1>4, <1>5, <2>1, UnlockedStep
<1>7. CASE ok
  <2>1. commit' = [at |-> "send", key |-> k, tx |-> 0]
    BY <1>7 DEF BeginCommit, Idle
  <2>2. disk' = memory'
    BY <1>7 DEF BeginCommit, Persist
  <2>3. TypeOK'
    <3>1. commit' \in CommitType
      BY <2>1 DEF CommitType
    <3> QED
      BY <1>2, <1>3, <2>2, <3>1 DEF ClientInv, TypeOK, CommitType
  <2>4. Safe(memory, txs)' /\ Safe(disk, txs)'
    BY <1>2, <1>5, <2>2
  <2>5. WaitingInv'
    BY <1>2, <1>4 DEF WaitingInv
  <2>6. CommitInv'
    <3>1. commit'.at = "send" /\ commit'.key = k
      BY <2>1
    <3>2. Intent(k)' = [key |-> k, root |-> accumulator[k]]
      BY <1>2 DEF Intent
    <3> QED
      BY <1>2, <2>2, <3>1, <3>2, MemoryFieldsNext DEF CommitInv, Intent
  <2>7. OnceInv' /\ (chainFinalized \subseteq LandedTxs)'
    BY <1>2 DEF ClientInv, OnceInv, LandedTxs, Landed
  <2> QED
    BY <2>3, <2>4, <2>5, <2>6, <2>7 DEF ClientInv
<1> QED
  BY <1>2, <1>6, <1>7

(* While a commit is in flight, only the awaited transaction can have its   *)
(* intent, and the other batches are in no live transaction.                *)
LEMMA InFlight ==
    ASSUME ClientInv, commit.at # "idle", NEW t \in LiveIn(txs)
    PROVE  /\ [key |-> txs[t].key, root |-> txs[t].root] = Intent(commit.key)
                  => commit.at = "wait" /\ t = commit.tx
           /\ \A k \in Keys \ {commit.key} :
                  Range(accumulator[k]) \cap Range(txs[t].root) = {}
<1>1. /\ accumulator \in [Keys -> Roots]
      /\ commit.key \in Keys
      /\ accumulator[commit.key] # <<>>
  BY MemoryType DEF ClientInv, TypeOK, CommitInv
<1>2. Range(accumulator[commit.key]) # {}
  BY <1>1, RootHoldsReceipts
<1>3. ASSUME [key |-> txs[t].key, root |-> txs[t].root] = Intent(commit.key)
      PROVE  commit.at = "wait" /\ t = commit.tx
  <2>1. txs[t].root = accumulator[commit.key]
    BY <1>3 DEF Intent
  <2> QED
    BY <1>1, <1>2, <2>1 DEF ClientInv, WaitingInv
<1>4. ASSUME NEW k \in Keys \ {commit.key}
      PROVE  Range(accumulator[k]) \cap Range(txs[t].root) = {}
  <2>1. CASE commit.at = "wait" /\ t = commit.tx
    <3>1. txs[t].root = accumulator[commit.key]
      BY <2>1 DEF ClientInv, CommitInv
    <3>2. /\ \A r \in Range(accumulator[k]) : KeyOf[r] = k
          /\ \A r \in Range(accumulator[commit.key]) : KeyOf[r] = commit.key
      BY <1>1, MemoryFields DEF ClientInv, Safe, Keyed
    <3> QED
      BY <3>1, <3>2
  <2> QED
    BY <2>1 DEF ClientInv, WaitingInv
<1> QED
  BY <1>3, <1>4

(* An answer that moves the transaction from its intent to the quarantine   *)
(* or to the tracked batches, and pops its receipts.                        *)
LEMMA AnswerStep ==
    ASSUME ClientInv, commit.at = "wait",
           PopBatch(commit.key),
           committing' = committing \ {Intent(commit.key)},
           commit.tx \in pendingCommits' \/ commit.tx \in tracked',
           pendingCommits \subseteq pendingCommits',
           pendingCommits' \subseteq TxIds,
           tracked \subseteq tracked',
           tracked' \subseteq tracked \cup LandedTxs,
           finalizedIds' = finalizedIds,
           committedEscrowIds' = committedEscrowIds,
           commit' = Idle, txs' = txs, chainFinalized' = chainFinalized,
           crashes' = crashes, disk' = disk \/ disk' = memory'
    PROVE  ClientInv'
<1>1. accumulator \in [Keys -> Roots] /\ memory \in Memory /\ commit.key \in Keys
  BY MemoryType DEF ClientInv, TypeOK, CommitInv
<1>2. accumulator' = [accumulator EXCEPT ![commit.key] = <<>>]
  BY DEF PopBatch
<1>3. /\ accumulator' \in [Keys -> Roots]
      /\ Range(accumulator'[commit.key]) = {}
      /\ \A k \in Keys \ {commit.key} : accumulator'[k] = accumulator[k]
  BY <1>1, <1>2, EmptyRoot
<1>4. LandedTxs \subseteq TxIds
  BY TxDomain, LandedIsLive DEF ClientInv
<1>5. memory' \in Memory
  BY <1>1, <1>3, <1>4, MemoryType, MemoryTypeNext
<1>6. \A k \in Keys : \A t \in LiveIn(txs) :
          Range(accumulator'[k]) \cap Range(txs[t].root) = {}
  BY <1>3, InFlight
<1>7. Safe(memory', txs)
  <2>1. Keyed(memory')
    BY <1>3, MemoryFields, MemoryFieldsNext DEF ClientInv, Safe, Keyed
  <2>2. Ledgered(memory', txs)
    BY MemoryFields, MemoryFieldsNext DEF ClientInv, Safe, Ledgered
  <2>3. Known(memory', txs)
    BY InFlight, MemoryFields, MemoryFieldsNext DEF ClientInv, Safe, Known
  <2>4. TrackedLanded(memory', txs)
    BY LandedIsLive, MemoryFields, MemoryFieldsNext DEF ClientInv, Safe, TrackedLanded
  <2>5. Restorable(memory', txs)
    BY <1>6, MemoryFieldsNext DEF Restorable
  <2> QED
    BY <2>1, <2>2, <2>3, <2>4, <2>5 DEF Safe
<1>8. commit' \in CommitType /\ commit'.at = "idle"
  BY DEF Idle, CommitType
<1> QED
  BY <1>5, <1>6, <1>7, <1>8, UnlockedStep

(* The wait for the receipt times out: the transaction is quarantined under *)
(* its hash (CommitTxUnknownError).                                         *)
LEMMA ReceiptUnknownStep ==
    ASSUME ClientInv, NEW ok \in PersistOutcomes, ReceiptUnknown(ok)
    PROVE  ClientInv'
<1>1. commit.tx \in TxIds
  BY TxDomain DEF ReceiptUnknown, ClientInv, CommitInv
<1>2. pendingCommits \subseteq TxIds
  BY MemoryType DEF ClientInv, TypeOK
<1>3. disk' = disk \/ disk' = memory'
  BY PersistOutcome DEF ReceiptUnknown
<1> QED
  BY <1>1, <1>2, <1>3, AnswerStep DEF ReceiptUnknown, chainVars

(* The receipt arrives: the batch is tracked and its intent dropped. *)
LEMMA CommitConfirmedStep ==
    ASSUME ClientInv, NEW ok \in PersistOutcomes, CommitConfirmed(ok)
    PROVE  ClientInv'
<1>1. commit.tx \in LandedTxs
  BY DEF CommitConfirmed, Landed, LandedTxs
<1>2. pendingCommits \subseteq TxIds
  BY MemoryType DEF ClientInv, TypeOK
<1>3. disk' = disk \/ disk' = memory'
  BY PersistOutcome DEF CommitConfirmed
<1>4. committedEscrowIds' = committedEscrowIds
  BY DEF CommitConfirmed, ArmedIds, ClientInv, CommitInv
<1> QED
  BY <1>1, <1>2, <1>3, <1>4, AnswerStep DEF CommitConfirmed, chainVars

(* The receipts that stay after a revert are in no live transaction, so     *)
(* their ids may leave the ledger and their intent may go.                  *)
LEMMA CommitRevertedStep ==
    ASSUME ClientInv, NEW ok \in PersistOutcomes, CommitReverted(ok)
    PROVE  ClientInv'
<1>1. /\ accumulator \in [Keys -> Roots]
      /\ memory \in Memory
      /\ commit.key \in Keys
      /\ commit.at # "idle"
  BY MemoryType DEF ClientInv, TypeOK, CommitInv, CommitReverted
<1>2. /\ accumulator' = accumulator
      /\ committing' = committing \ {Intent(commit.key)}
      /\ pendingCommits' = pendingCommits
      /\ tracked' = tracked
      /\ finalizedIds' = finalizedIds
      /\ committedEscrowIds' = committedEscrowIds \ Range(accumulator[commit.key])
      /\ txs' = txs /\ chainFinalized' = chainFinalized /\ crashes' = crashes
      /\ commit' = Idle
      /\ disk' = disk \/ disk' = memory'
  BY PersistOutcome DEF CommitReverted, chainVars
<1>3. commit.at = "wait" => commit.tx \notin LiveIn(txs)
  BY DEF CommitReverted, LiveIn
<1>4. memory' \in Memory
  BY <1>1, <1>2, MemoryType, MemoryTypeNext
<1>5. \A k \in Keys : \A t \in LiveIn(txs) :
          Range(accumulator'[k]) \cap Range(txs[t].root) = {}
  BY <1>2, <1>3 DEF ClientInv, WaitingInv
<1>6. Safe(memory', txs)
  <2>1. Keyed(memory')
    BY <1>2, MemoryFields, MemoryFieldsNext DEF ClientInv, Safe, Keyed
  <2>2. Ledgered(memory', txs)
    BY <1>1, <1>2, <1>5, MemoryFields, MemoryFieldsNext DEF ClientInv, Safe, Ledgered
  <2>3. Known(memory', txs)
    BY <1>1, <1>2, <1>3, InFlight, MemoryFields, MemoryFieldsNext
       DEF ClientInv, Safe, Known
  <2>4. TrackedLanded(memory', txs)
    BY <1>2, MemoryFields, MemoryFieldsNext DEF ClientInv, Safe, TrackedLanded
  <2>5. Restorable(memory', txs)
    BY <1>5, MemoryFieldsNext DEF Restorable
  <2> QED
    BY <2>1, <2>2, <2>3, <2>4, <2>5 DEF Safe
<1>7. commit' \in CommitType /\ commit'.at = "idle"
  BY <1>2 DEF Idle, CommitType
<1> QED
  BY <1>2, <1>4, <1>5, <1>6, <1>7, UnlockedStep

(* A landed intent is adopted: no other live transaction has its root, for  *)
(* it would share receipts with the one that landed.                        *)
LEMMA RecoverStep ==
    ASSUME ClientInv, NEW intent \in committing, NEW ok \in PersistOutcomes,
           RecoverCommittingIntent(intent, ok)
    PROVE  ClientInv'
<1> DEFINE B == BatchesByRoot(intent.root)
<1>1. /\ accumulator \in [Keys -> Roots]
      /\ memory \in Memory
      /\ intent.key \in Keys
  BY MemoryType DEF ClientInv, TypeOK
<1>2. /\ accumulator' = [accumulator EXCEPT ![intent.key] = <<>>]
      /\ committing' = committing \ {intent}
      /\ pendingCommits' = pendingCommits
      /\ tracked' = tracked \cup B
      /\ finalizedIds' = finalizedIds
      /\ committedEscrowIds' = committedEscrowIds
      /\ commit' = commit /\ commit.at = "idle"
      /\ txs' = txs /\ chainFinalized' = chainFinalized /\ crashes' = crashes
      /\ disk' = disk \/ disk' = memory'
      /\ Cardinality(B) = 1
  BY PersistOutcome DEF RecoverCommittingIntent, PopBatch, Unlocked, chainVars
<1>3. B # {} /\ \A t \in B : t \in LandedTxs /\ t \in LiveIn(txs) /\ txs[t].root = intent.root
  <2>1. B # {}
    BY <1>2, FS_EmptySet
  <2> QED
    BY <2>1 DEF BatchesByRoot, Landed, LandedTxs, LiveIn
<1> HIDE DEF B
<1>4. /\ accumulator' \in [Keys -> Roots]
      /\ \A k \in Keys : Range(accumulator'[k]) \subseteq Range(accumulator[k])
  BY <1>1, <1>2, EmptyRoot
<1>5. B \subseteq TxIds
  BY <1>3, TxDomain, LandedIsLive DEF ClientInv
<1>6. memory' \in Memory
  BY <1>1, <1>2, <1>4, <1>5, MemoryType, MemoryTypeNext
<1>7. \A k \in Keys : \A t \in LiveIn(txs) :
          Range(accumulator'[k]) \cap Range(txs[t].root) = {}
  BY <1>2, <1>4, UnlockedDisjoint DEF Unlocked
<1>8. ASSUME NEW t \in LiveIn(txs), txs[t].root = intent.root PROVE t \in B
  <2>1. t \in DOMAIN txs /\ txs[t].root \in Roots
    BY TxDomain DEF ClientInv, LiveIn, TxType
  <2>2. Range(txs[t].root) # {}
    BY <2>1, RootHoldsReceipts DEF ClientInv, OnceInv
  <2> QED
    BY <1>3, <1>8, <2>2 DEF ClientInv, OnceInv
<1>9. Safe(memory', txs)
  <2>1. Keyed(memory')
    BY <1>4, MemoryFields, MemoryFieldsNext DEF ClientInv, Safe, Keyed
  <2>2. Ledgered(memory', txs)
    BY <1>2, MemoryFields, MemoryFieldsNext DEF ClientInv, Safe, Ledgered
  <2>3. Known(memory', txs)
    <3> SUFFICES ASSUME NEW t \in LiveIn(txs)
                 PROVE  \/ t \in tracked'
                        \/ t \in pendingCommits'
                        \/ [key |-> txs[t].key, root |-> txs[t].root] \in committing'
      BY MemoryFieldsNext DEF Known
    <3>1. CASE [key |-> txs[t].key, root |-> txs[t].root] = intent
      <4>1. txs[t].root = intent.root
        BY <3>1
      <4> QED
        BY <1>2, <1>8, <4>1
    <3>2. CASE [key |-> txs[t].key, root |-> txs[t].root] # intent
      BY <1>2, <3>2, MemoryFields DEF ClientInv, Safe, Known
    <3> QED
      BY <3>1, <3>2
  <2>4. TrackedLanded(memory', txs)
    BY <1>2, <1>3, LandedIsLive, MemoryFields, MemoryFieldsNext
       DEF ClientInv, Safe, TrackedLanded
  <2>5. Restorable(memory', txs)
    BY <1>7, MemoryFieldsNext DEF Restorable
  <2> QED
    BY <2>1, <2>2, <2>3, <2>4, <2>5 DEF Safe
<1>10. commit' \in CommitType
  BY <1>2 DEF ClientInv, TypeOK, CommitType
<1> QED
  BY <1>2, <1>6, <1>7, <1>9, <1>10, UnlockedStep

(* A quarantined transaction that landed is tracked from then on. *)
LEMMA ReconcileStep ==
    ASSUME ClientInv, NEW t \in pendingCommits, NEW ok \in PersistOutcomes,
           ReconcilePendingCommit(t, ok)
    PROVE  ClientInv'
<1>1. accumulator \in [Keys -> Roots] /\ memory \in Memory /\ t \in TxIds
  BY MemoryType DEF ClientInv, TypeOK
<1>2. /\ accumulator' = accumulator
      /\ committing' = committing
      /\ pendingCommits' = pendingCommits \ {t}
      /\ tracked' = tracked \cup {t}
      /\ finalizedIds' = finalizedIds
      /\ committedEscrowIds' = committedEscrowIds
      /\ commit' = commit /\ commit.at = "idle"
      /\ txs' = txs /\ chainFinalized' = chainFinalized /\ crashes' = crashes
      /\ disk' = disk \/ disk' = memory'
      /\ t \in LandedTxs
  BY PersistOutcome
     DEF ReconcilePendingCommit, Unlocked, chainVars, Landed, LandedTxs
<1>3. memory' \in Memory
  BY <1>1, <1>2, MemoryType, MemoryTypeNext
<1>4. \A k \in Keys : \A u \in LiveIn(txs) :
          Range(accumulator'[k]) \cap Range(txs[u].root) = {}
  BY <1>2, UnlockedDisjoint DEF Unlocked
<1>5. Safe(memory', txs)
  BY <1>2, LandedIsLive, MemoryFields, MemoryFieldsNext
     DEF ClientInv, Safe, Keyed, Ledgered, Known, TrackedLanded, Restorable
<1>6. commit' \in CommitType
  BY <1>2 DEF ClientInv, TypeOK, CommitType
<1> QED
  BY <1>2, <1>3, <1>4, <1>5, <1>6, UnlockedStep

(* Finalizing touches none of what makes a state safe. *)
LEMMA FinalizeStep ==
    ASSUME ClientInv, NEW t \in tracked, NEW ok \in PersistOutcomes,
           FinalizeReadyBatch(t, ok) \/ ReconcileFinalized(t, ok)
    PROVE  ClientInv'
<1>1. accumulator \in [Keys -> Roots] /\ memory \in Memory /\ t \in TxIds
  BY MemoryType DEF ClientInv, TypeOK
<1>2. /\ accumulator' = accumulator
      /\ committing' = committing
      /\ pendingCommits' = pendingCommits
      /\ tracked' = tracked
      /\ committedEscrowIds' = committedEscrowIds
      /\ commit' = commit /\ commit.at = "idle"
      /\ txs' = txs /\ crashes' = crashes
      /\ finalizedIds' = finalizedIds \cup {t} \/ finalizedIds' = finalizedIds
      /\ chainFinalized' = chainFinalized \cup {t} \/ chainFinalized' = chainFinalized
      /\ disk' = disk \/ disk' = memory'
  BY PersistOutcome DEF FinalizeReadyBatch, ReconcileFinalized, Unlocked, chainVars
<1>3. t \in LandedTxs
  BY LandedIsLive, MemoryFields DEF ClientInv, Safe, TrackedLanded
<1>4. memory' \in Memory
  BY <1>1, <1>2, MemoryType, MemoryTypeNext
<1>5. Safe(memory', txs)
  BY <1>2, MemoryFields, MemoryFieldsNext
     DEF ClientInv, Safe, Keyed, Ledgered, Known, TrackedLanded, Restorable
<1>6. TypeOK'
  BY <1>1, <1>2, <1>4 DEF ClientInv, TypeOK
<1>7. Safe(memory, txs)' /\ Safe(disk, txs)'
  BY <1>2, <1>5 DEF ClientInv
<1>8. WaitingInv' /\ CommitInv' /\ OnceInv'
  BY <1>2 DEF ClientInv, WaitingInv, CommitInv, OnceInv
<1>9. (chainFinalized \subseteq LandedTxs)'
  BY <1>2, <1>3 DEF ClientInv, LandedTxs, Landed
<1> QED
  BY <1>6, <1>7, <1>8, <1>9 DEF ClientInv

(* Somebody else finalizes a batch that landed. *)
LEMMA ThirdPartyStep ==
    ASSUME ClientInv, NEW t \in DOMAIN txs, ThirdPartyFinalize(t)
    PROVE  ClientInv'
<1>1. /\ memory' = memory
      /\ accumulator' = accumulator /\ committing' = committing
      /\ committedEscrowIds' = committedEscrowIds
      /\ disk' = disk /\ commit' = commit /\ txs' = txs /\ crashes' = crashes
      /\ chainFinalized' = chainFinalized \cup {t}
      /\ t \in LandedTxs /\ t \in TxIds
  BY TxDomain DEF ThirdPartyFinalize, memoryVars, memory, LandedTxs, ClientInv
<1>2. TypeOK' /\ Safe(memory, txs)' /\ Safe(disk, txs)'
  BY <1>1 DEF ClientInv, TypeOK
<1>3. WaitingInv' /\ CommitInv' /\ OnceInv'
  BY <1>1 DEF ClientInv, WaitingInv, CommitInv, OnceInv, Intent
<1>4. (chainFinalized \subseteq LandedTxs)'
  BY <1>1 DEF ClientInv, LandedTxs, Landed
<1> QED
  BY <1>2, <1>3, <1>4 DEF ClientInv

(* A restart from the state file: what it restores is in no live            *)
(* transaction, because a batch under a surviving intent is left out.       *)
LEMMA RestartStep ==
    ASSUME ClientInv, Restart
    PROVE  ClientInv'
<1>1. /\ disk \in Memory
      /\ disk.accumulator \in [Keys -> Roots]
  BY DEF ClientInv, TypeOK, Memory
<1>2. /\ committing' = disk.committing
      /\ pendingCommits' = disk.pendingCommits
      /\ tracked' = disk.tracked
      /\ finalizedIds' = disk.finalizedIds
      /\ committedEscrowIds' = disk.committedEscrowIds
      /\ commit' = Idle /\ disk' = disk
      /\ txs' = txs /\ chainFinalized' = chainFinalized
      /\ crashes' \in 0 .. MaxCrashes
  BY ClientAssumption DEF Restart, chainVars, ClientInv, TypeOK
<1>3. \A k \in Keys :
        \/ accumulator'[k] = <<>>
        \/ /\ \A intent \in disk.committing : intent.key # k
           /\ accumulator'[k] = disk.accumulator[k]
  BY DEF Restart, RestorePending
<1>4. accumulator' \in [Keys -> Roots]
  BY <1>1, EmptyRoot DEF Restart, RestorePending
<1>5. memory' \in Memory
  BY <1>1, <1>2, <1>4, MemoryTypeNext DEF Memory
<1>6. \A k \in Keys : \A t \in LiveIn(txs) :
          Range(accumulator'[k]) \cap Range(txs[t].root) = {}
  BY <1>3, EmptyRoot DEF ClientInv, Safe, Restorable
<1>7. Safe(memory', txs)
  <2>1. Keyed(memory')
    BY <1>3, EmptyRoot, MemoryFieldsNext DEF ClientInv, Safe, Keyed
  <2>2. Ledgered(memory', txs) /\ Known(memory', txs) /\ TrackedLanded(memory', txs)
    BY <1>2, MemoryFieldsNext DEF ClientInv, Safe, Ledgered, Known, TrackedLanded
  <2>3. Restorable(memory', txs)
    BY <1>6, MemoryFieldsNext DEF Restorable
  <2> QED
    BY <2>1, <2>2, <2>3 DEF Safe
<1>8. TypeOK'
  BY <1>2, <1>5 DEF ClientInv, TypeOK, Idle
<1>9. WaitingInv'
  BY <1>2, <1>6 DEF WaitingInv
<1>10. CommitInv' /\ OnceInv' /\ (chainFinalized \subseteq LandedTxs)'
  BY <1>2 DEF ClientInv, CommitInv, OnceInv, Idle, LandedTxs, Landed
<1> QED
  BY <1>2, <1>7, <1>8, <1>9, <1>10 DEF ClientInv

--------------------------------------------------------------------------------
(****************************************************************************)
(* Steps of the transactions                                                *)
(****************************************************************************)

(* A broadcast adds one transaction with the receipts in the accumulator:   *)
(* none of them is in another live one, so memory and disk stay safe and    *)
(* the receipts are still settled once.                                     *)
LEMMA BroadcastFacts ==
    ASSUME ClientInv, commit.at = "send", Len(txs) < MaxTx, txs' = Broadcast
    PROVE  LET n == Len(txs) + 1 IN
           /\ txs' \in Seq(TxType)
           /\ Len(txs') = n
           /\ n \in TxIds
           /\ DOMAIN txs' = DOMAIN txs \cup {n}
           /\ n \notin DOMAIN txs
           /\ \A t \in DOMAIN txs : txs'[t] = txs[t]
           /\ txs'[n] = [key |-> commit.key, root |-> accumulator[commit.key],
                         status |-> "mempool"]
           /\ LiveIn(txs') = LiveIn(txs) \cup {n}
           /\ Safe(memory, txs') /\ Safe(disk, txs')
           /\ OnceInv'
           /\ LandedTxs' = LandedTxs
<1> DEFINE n == Len(txs) + 1
           tx == [key |-> commit.key, root |-> accumulator[commit.key],
                  status |-> "mempool"]
<1>1. /\ accumulator \in [Keys -> Roots]
      /\ commit.key \in Keys
      /\ accumulator[commit.key] # <<>>
      /\ accumulator[commit.key] \in Roots
  BY MemoryType DEF ClientInv, TypeOK, CommitInv
<1>2. txs \in Seq(TxType) /\ Len(txs) \in Nat /\ DOMAIN txs = 1 .. Len(txs)
  BY TxDomain DEF ClientInv, TypeOK, TxType
<1>3. tx \in TxType
  BY <1>1 DEF TxType, TxStatus
<1>4. txs' = Append(txs, tx)
  BY DEF Broadcast
<1> HIDE DEF tx
<1>5. /\ txs' \in Seq(TxType)
      /\ Len(txs') = n
      /\ DOMAIN txs' = 1 .. n
      /\ txs'[n] = tx
      /\ \A t \in 1 .. Len(txs) : txs'[t] = txs[t]
  BY <1>2, <1>3, <1>4
<1>6. /\ n \in TxIds
      /\ DOMAIN txs' = DOMAIN txs \cup {n}
      /\ n \notin DOMAIN txs
      /\ \A t \in DOMAIN txs : txs'[t] = txs[t]
  BY <1>2, <1>5, ClientAssumption DEF TxIds
<1> HIDE DEF n
<1>7. tx.key = commit.key /\ tx.root = accumulator[commit.key] /\ tx.status = "mempool"
  BY DEF tx
<1>8. LiveIn(txs') = LiveIn(txs) \cup {n}
  BY <1>5, <1>6, <1>7 DEF LiveIn
<1>9. /\ [key |-> commit.key, root |-> accumulator[commit.key]] \in committing
      /\ [key |-> commit.key, root |-> accumulator[commit.key]] \in disk.committing
      /\ Range(accumulator[commit.key]) \subseteq committedEscrowIds
      /\ Range(accumulator[commit.key]) \subseteq disk.committedEscrowIds
      /\ \A r \in Range(accumulator[commit.key]) : KeyOf[r] = commit.key
  BY <1>1, MemoryFields DEF ClientInv, CommitInv, Intent, Safe, Keyed
<1>10. txs'[n] = [key |-> commit.key, root |-> accumulator[commit.key],
                 status |-> "mempool"]
  BY <1>5 DEF tx
<1>11. Safe(memory, txs')
  BY <1>1, <1>6, <1>9, <1>10, SafeBroadcast, MemoryFields DEF ClientInv
<1>12. Safe(disk, txs')
  BY <1>1, <1>6, <1>9, <1>10, SafeBroadcast DEF ClientInv
<1>13. OnceInv'
  <2>1. \A t \in DOMAIN txs' : txs'[t].root # <<>>
    BY <1>1, <1>5, <1>6, <1>7 DEF ClientInv, OnceInv
  <2>2. \A t \in LiveIn(txs) : /\ t \in DOMAIN txs
                               /\ txs'[t].root = txs[t].root
                               /\ Range(accumulator[commit.key]) \cap Range(txs[t].root) = {}
    BY <1>1, <1>6 DEF ClientInv, WaitingInv, LiveIn
  <2>3. ASSUME NEW t \in LiveIn(txs'), NEW u \in LiveIn(txs'), t # u
        PROVE  Range(txs'[t].root) \cap Range(txs'[u].root) = {}
    <3>1. txs'[n].root = accumulator[commit.key]
      BY <1>5, <1>7
    <3>2. CASE t \in LiveIn(txs) /\ u \in LiveIn(txs)
      BY <2>2, <2>3, <3>2 DEF ClientInv, OnceInv
    <3>3. CASE t = n /\ u \in LiveIn(txs)
      BY <2>2, <3>1, <3>3
    <3>4. CASE u = n /\ t \in LiveIn(txs)
      BY <2>2, <3>1, <3>4
    <3> QED
      BY <1>8, <2>3, <3>2, <3>3, <3>4
  <2> QED
    BY <2>1, <2>3 DEF OnceInv
<1>14. LandedTxs' = LandedTxs
  BY <1>5, <1>6, <1>7 DEF LandedTxs, Landed
<1> QED
  BY <1>5, <1>6, <1>8, <1>10, <1>11, <1>12, <1>13, <1>14 DEF n

(* The broadcast of commitBatch: the transaction carries the receipts of    *)
(* the intent saved before it.                                              *)
LEMMA SendStep ==
    ASSUME ClientInv, Send
    PROVE  ClientInv'
<1> DEFINE n == Len(txs) + 1
<1>1. commit.at = "send" /\ Len(txs) < MaxTx /\ txs' = Broadcast
  BY DEF Send
<1>2. /\ memory' = memory
      /\ accumulator' = accumulator /\ committing' = committing
      /\ committedEscrowIds' = committedEscrowIds
      /\ disk' = disk /\ chainFinalized' = chainFinalized /\ crashes' = crashes
  BY DEF Send, memoryVars, memory
<1>3. /\ txs' \in Seq(TxType)
      /\ Len(txs') = n
      /\ n \in TxIds
      /\ DOMAIN txs' = DOMAIN txs \cup {n}
      /\ \A t \in DOMAIN txs : txs'[t] = txs[t]
      /\ txs'[n].key = commit.key
      /\ txs'[n].root = accumulator[commit.key]
      /\ LiveIn(txs') = LiveIn(txs) \cup {n}
      /\ Safe(memory, txs') /\ Safe(disk, txs')
      /\ OnceInv'
      /\ LandedTxs' = LandedTxs
  BY <1>1, BroadcastFacts
<1> HIDE DEF n
<1>4. commit \in CommitType /\ commit' = [commit EXCEPT !.at = "wait", !.tx = n]
  BY <1>3 DEF Send, ClientInv, TypeOK, CommitType
<1>5. commit'.at = "wait" /\ commit'.tx = n /\ commit'.key = commit.key
  BY <1>4 DEF CommitType
<1>6. TypeOK'
  <2>1. commit' \in CommitType
    BY <1>3, <1>4 DEF CommitType
  <2>2. Len(txs') <= MaxTx
    BY <1>3, ClientAssumption DEF TxIds
  <2> QED
    BY <1>2, <1>3, <2>1, <2>2 DEF ClientInv, TypeOK, CommitType, TxType
<1>7. WaitingInv'
  <2>1. \A t \in LiveIn(txs) : txs'[t] = txs[t]
    BY <1>3 DEF LiveIn
  <2> QED
    BY <1>1, <1>2, <1>3, <1>5, <2>1 DEF ClientInv, WaitingInv
<1>8. CommitInv'
  BY <1>1, <1>2, <1>3, <1>5 DEF ClientInv, CommitInv, Intent
<1> QED
  BY <1>2, <1>3, <1>6, <1>7, <1>8 DEF ClientInv

(* A broadcast that raised: the transaction is or is not out there, the     *)
(* batch is popped and its intent stays.                                    *)
LEMMA BroadcastFailedStep ==
    ASSUME ClientInv, NEW ok \in PersistOutcomes, BroadcastFailed(ok)
    PROVE  ClientInv'
<1>1. /\ accumulator \in [Keys -> Roots]
      /\ memory \in Memory
      /\ commit.key \in Keys
      /\ commit.at = "send"
  BY MemoryType DEF ClientInv, TypeOK, CommitInv, BroadcastFailed
<1>2. /\ accumulator' = [accumulator EXCEPT ![commit.key] = <<>>]
      /\ committing' = committing
      /\ pendingCommits' = pendingCommits
      /\ tracked' = tracked
      /\ finalizedIds' = finalizedIds
      /\ committedEscrowIds' = committedEscrowIds
      /\ chainFinalized' = chainFinalized /\ crashes' = crashes
      /\ commit' = Idle
      /\ disk' = disk \/ disk' = memory'
  BY PersistOutcome DEF BroadcastFailed, PopBatch
<1>3. /\ txs' \in Seq(TxType) /\ Len(txs') <= MaxTx
      /\ Safe(memory, txs') /\ Safe(disk, txs')
      /\ OnceInv'
      /\ LandedTxs' = LandedTxs
      /\ \A t \in LiveIn(txs') :
             \/ t \in LiveIn(txs) /\ txs'[t].root = txs[t].root
             \/ txs'[t].root = accumulator[commit.key]
  <2>1. CASE txs' = txs
    BY <2>1 DEF ClientInv, TypeOK, TxType, OnceInv, LandedTxs, Landed
  <2>2. CASE Len(txs) < MaxTx /\ txs' = Broadcast
    <3> DEFINE n == Len(txs) + 1
    <3>1. /\ txs' \in Seq(TxType)
          /\ Len(txs') = n
          /\ n \in TxIds
          /\ \A t \in DOMAIN txs : txs'[t] = txs[t]
          /\ txs'[n].root = accumulator[commit.key]
          /\ LiveIn(txs') = LiveIn(txs) \cup {n}
          /\ Safe(memory, txs') /\ Safe(disk, txs')
          /\ OnceInv'
          /\ LandedTxs' = LandedTxs
      BY <1>1, <2>2, BroadcastFacts
    <3> HIDE DEF n
    <3>2. Len(txs') <= MaxTx
      BY <3>1, ClientAssumption DEF TxIds
    <3> QED
      BY <3>1, <3>2 DEF LiveIn
  <2> QED
    BY <2>1, <2>2 DEF BroadcastFailed
<1>4. /\ accumulator' \in [Keys -> Roots]
      /\ Range(accumulator'[commit.key]) = {}
      /\ \A k \in Keys \ {commit.key} : accumulator'[k] = accumulator[k]
  BY <1>1, <1>2, EmptyRoot
<1>5. memory' \in Memory
  BY <1>1, <1>2, <1>4, MemoryType, MemoryTypeNext
<1>6. Safe(memory', txs')
  <2>1. /\ memory.accumulator \in [Keys -> Roots]
        /\ memory'.accumulator = [memory.accumulator EXCEPT ![commit.key] = <<>>]
        /\ memory'.committing = memory.committing
        /\ memory'.pendingCommits = memory.pendingCommits
        /\ memory'.tracked = memory.tracked
        /\ memory'.committedEscrowIds = memory.committedEscrowIds
    BY <1>1, <1>2, MemoryFields, MemoryFieldsNext
  <2>2. Safe(memory, txs') /\ commit.key \in Keys
    BY <1>1, <1>3
  <2> QED
    BY <2>1, <2>2, SafePop
<1>7. WaitingInv'
  <2> SUFFICES ASSUME NEW k \in Keys, NEW t \in LiveIn(txs')
               PROVE  Range(accumulator'[k]) \cap Range(txs'[t].root) = {}
    BY DEF WaitingInv
  <2>1. CASE k = commit.key
    BY <1>4, <2>1
  <2>2. CASE k # commit.key /\ t \in LiveIn(txs) /\ txs'[t].root = txs[t].root
    BY <1>1, <1>4, <2>2, InFlight
  <2>3. CASE k # commit.key /\ txs'[t].root = accumulator[commit.key]
    BY <1>1, <1>4, <2>3, MemoryFields DEF ClientInv, Safe, Keyed
  <2> QED
    BY <1>3, <2>1, <2>2, <2>3
<1>8. TypeOK'
  BY <1>2, <1>3, <1>5 DEF ClientInv, TypeOK, TxType, Idle
<1>9. CommitInv'
  BY <1>2 DEF CommitInv, Idle
<1> QED
  BY <1>2, <1>3, <1>6, <1>7, <1>8, <1>9 DEF ClientInv

(* A transaction is mined, reverted or forgotten: none becomes live. *)
LEMMA MineStep ==
    ASSUME ClientInv, NEW t \in DOMAIN txs, NEW status \in TxStatus \ {"mempool"},
           Mine(t, status)
    PROVE  ClientInv'
<1>1. /\ memory' = memory
      /\ accumulator' = accumulator /\ committing' = committing
      /\ committedEscrowIds' = committedEscrowIds
      /\ disk' = disk /\ commit' = commit /\ crashes' = crashes
      /\ chainFinalized' = chainFinalized
  BY DEF Mine, memoryVars, memory
<1>2. /\ txs \in Seq(TxType) /\ Len(txs) <= MaxTx /\ txs[t] \in TxType
      /\ Len(txs) \in Nat /\ DOMAIN txs = 1 .. Len(txs)
  BY TxDomain DEF ClientInv, TypeOK, TxType
<1> DEFINE tx == [txs[t] EXCEPT !.status = status]
<1>3. /\ tx \in TxType
      /\ tx.key = txs[t].key /\ tx.root = txs[t].root /\ tx.status = status
  BY <1>2 DEF TxType
<1>4. txs' = [txs EXCEPT ![t] = tx] /\ txs[t].status = "mempool"
  BY DEF Mine
<1> HIDE DEF tx
<1>5. txs' \in Seq(TxType) /\ Len(txs') = Len(txs) /\ DOMAIN txs' = DOMAIN txs
  BY <1>2, <1>3, <1>4
<1>6. \A u \in DOMAIN txs : /\ txs'[u].root = txs[u].root
                            /\ txs'[u].key = txs[u].key
                            /\ txs[u].status = "landed" => txs'[u].status = "landed"
                            /\ txs'[u].status \in {"mempool", "landed"}
                                  => txs[u].status \in {"mempool", "landed"}
  BY <1>2, <1>3, <1>4
<1>7. LiveIn(txs') \subseteq LiveIn(txs)
  BY <1>5, <1>6 DEF LiveIn
<1>8. Safe(memory, txs') /\ Safe(disk, txs')
  BY <1>5, <1>6, <1>7, SafeMono DEF ClientInv
<1>9. TypeOK'
  BY <1>1, <1>2, <1>5 DEF ClientInv, TypeOK, TxType
<1>10. WaitingInv'
  BY <1>1, <1>6, <1>7 DEF ClientInv, WaitingInv, LiveIn
<1>11. CommitInv'
  BY <1>1, <1>5, <1>6 DEF ClientInv, CommitInv, Intent
<1>12. OnceInv'
  <2>1. \A u \in LiveIn(txs') : u \in LiveIn(txs) /\ txs'[u].root = txs[u].root
    BY <1>6, <1>7 DEF LiveIn
  <2> QED
    BY <1>5, <1>6, <2>1 DEF ClientInv, OnceInv
<1>13. (chainFinalized \subseteq LandedTxs)'
  BY <1>1, <1>5, <1>6 DEF ClientInv, LandedTxs, Landed
<1> QED
  BY <1>1, <1>8, <1>9, <1>10, <1>11, <1>12, <1>13 DEF ClientInv

(* Every step preserves the invariant. *)
LEMMA ClientInvNext == ClientInv /\ [Next]_vars => ClientInv'
<1> SUFFICES ASSUME ClientInv, [Next]_vars PROVE ClientInv'
  OBVIOUS
<1>1. CASE UNCHANGED vars
  BY <1>1 DEF vars, memoryVars, chainVars, memory, ClientInv, TypeOK, WaitingInv,
              CommitInv, Intent, OnceInv, LandedTxs, Landed
<1>2. CASE CommitStep
  BY <1>2, BeginCommitStep, SendStep, BroadcastFailedStep, ReceiptUnknownStep,
     CommitRevertedStep, CommitConfirmedStep DEF CommitStep
<1>3. CASE Recover \/ Reconcile \/ Finalize
  BY <1>3, RecoverStep, ReconcileStep, FinalizeStep DEF Recover, Reconcile, Finalize
<1>4. ASSUME NEW t \in DOMAIN txs,
             \/ \E status \in TxStatus \ {"mempool"} : Mine(t, status)
             \/ ThirdPartyFinalize(t)
      PROVE  ClientInv'
  BY <1>4, MineStep, ThirdPartyStep
<1>5. CASE Restart
  BY <1>5, RestartStep
<1>6. ASSUME NEW r \in Receipts, NEW ok \in PersistOutcomes, Accumulate(r, ok)
      PROVE  ClientInv'
  BY <1>6, AccumulateStep
<1> QED
  BY <1>1, <1>2, <1>3, <1>4, <1>5, <1>6 DEF Next

(* The invariant, always. *)
LEMMA ClientInvAlways == Spec => []ClientInv
  BY ClientInvInit, ClientInvNext, PTL DEF Spec

--------------------------------------------------------------------------------
(****************************************************************************)
(* The theorems                                                             *)
(****************************************************************************)

(* The client's memory, its state file and its transactions keep their      *)
(* types; in particular no batch ever holds a receipt twice (accumulate,    *)
(* _restore_pending).                                                       *)
THEOREM ClientTypes == Spec => []TypeOK
<1>1. ClientInv => TypeOK
  BY DEF ClientInv
<1> QED
  BY <1>1, ClientInvAlways, PTL

(* No commit lands behind the client's back, whatever crashes, failed saves *)
(* and lost answers come between the write-ahead intent and the tracked     *)
(* batch (commit_ready_batches, recover_committing_intents).                *)
THEOREM NoCommitStranded == Spec => []NothingStranded
<1>1. ClientInv => NothingStranded
  BY MemoryFields DEF ClientInv, Safe, Known, LiveIn, NothingStranded
<1> QED
  BY <1>1, ClientInvAlways, PTL

(* How a step changes the batches on chain: one lands, one that landed is   *)
(* finalized, or nothing changes.                                           *)
BatchLands(t) ==
    /\ t \in LiveIn(txs) \ LandedTxs
    /\ LandedTxs' = LandedTxs \cup {t}
    /\ chainFinalized' = chainFinalized
    /\ \A u \in LandedTxs \cup {t} : txs'[u].root = txs[u].root

(* A batch that landed is finalized. *)
BatchFinalized(t) ==
    /\ t \in LandedTxs \ chainFinalized
    /\ chainFinalized' = chainFinalized \cup {t}
    /\ txs' = txs

(* Nothing on chain changes. *)
ChainSame ==
    /\ LandedTxs' = LandedTxs
    /\ chainFinalized' = chainFinalized
    /\ \A u \in LandedTxs : txs'[u].root = txs[u].root

(* Every step is one of the three. *)
LEMMA ChainStep ==
    ASSUME ClientInv, [Next]_vars
    PROVE  \/ \E t \in LiveIn(txs) : BatchLands(t)
           \/ \E t \in LandedTxs : BatchFinalized(t)
           \/ ChainSame
<1> USE DEF chainVars
<1>1. CASE txs' = txs /\ chainFinalized' = chainFinalized
  BY <1>1 DEF ChainSame, LandedTxs, Landed
<1>2. CASE commit.at = "send" /\ Len(txs) < MaxTx /\ txs' = Broadcast
           /\ chainFinalized' = chainFinalized
  <2>1. LandedTxs' = LandedTxs /\ \A t \in DOMAIN txs : txs'[t] = txs[t]
    BY <1>2, BroadcastFacts
  <2> QED
    BY <1>2, <2>1, LandedIsLive DEF ChainSame
<1>3. ASSUME NEW t \in DOMAIN txs, NEW status \in TxStatus \ {"mempool"},
             Mine(t, status)
      PROVE  ChainSame \/ (BatchLands(t) /\ t \in LiveIn(txs))
  <2> DEFINE tx == [txs[t] EXCEPT !.status = status]
  <2>1. /\ txs' = [txs EXCEPT ![t] = tx]
        /\ txs[t].status = "mempool"
        /\ chainFinalized' = chainFinalized
        /\ t \in LiveIn(txs) \ LandedTxs
    BY <1>3, LandedIsLive DEF Mine, LiveIn
  <2>2. /\ DOMAIN txs' = DOMAIN txs
        /\ txs'[t].root = txs[t].root /\ txs'[t].status = status
        /\ \A u \in DOMAIN txs \ {t} : txs'[u] = txs[u]
    <3>1. txs[t] \in TxType
      BY TxDomain DEF ClientInv
    <3>2. tx.root = txs[t].root /\ tx.status = status
      BY <3>1 DEF TxType
    <3> HIDE DEF tx
    <3> QED
      BY <2>1, <3>2
  <2> HIDE DEF tx
  <2>3. CASE status = "landed"
    BY <2>1, <2>2, <2>3 DEF BatchLands, LandedTxs, Landed
  <2>4. CASE status # "landed"
    BY <2>1, <2>2, <2>4 DEF ChainSame, LandedTxs, Landed
  <2> QED
    BY <2>1, <2>3, <2>4
<1>4. ASSUME NEW t, Landed(t), t \notin chainFinalized,
             chainFinalized' = chainFinalized \cup {t}, txs' = txs
      PROVE  t \in LandedTxs /\ BatchFinalized(t)
  BY <1>4 DEF BatchFinalized, LandedTxs, Landed
<1>5. \A t \in tracked : Landed(t)
  BY MemoryFields DEF ClientInv, Safe, TrackedLanded, Landed
<1>6. CASE CommitStep
  BY <1>1, <1>2, <1>6 DEF CommitStep, BeginCommit, Send, BroadcastFailed, ReceiptUnknown,
                          CommitReverted, CommitConfirmed
<1>7. CASE Recover \/ Reconcile
  BY <1>1, <1>7 DEF Recover, Reconcile, RecoverCommittingIntent, ReconcilePendingCommit
<1>8. CASE Finalize
  <2>1. PICK t \in tracked, ok \in PersistOutcomes :
            FinalizeReadyBatch(t, ok) \/ ReconcileFinalized(t, ok)
    BY <1>8 DEF Finalize
  <2>2. CASE FinalizeReadyBatch(t, ok)
    BY <1>4, <1>5, <2>2 DEF FinalizeReadyBatch
  <2>3. CASE ReconcileFinalized(t, ok)
    BY <1>1, <2>3 DEF ReconcileFinalized
  <2> QED
    BY <2>1, <2>2, <2>3
<1>9. CASE Restart
  BY <1>1, <1>9 DEF Restart
<1>10. ASSUME NEW r \in Receipts, NEW ok \in PersistOutcomes, Accumulate(r, ok)
       PROVE  ChainSame
  <2>1. txs' = txs /\ chainFinalized' = chainFinalized
    BY <1>10 DEF Accumulate
  <2> QED
    BY <2>1 DEF ChainSame, LandedTxs, Landed
<1>11. ASSUME NEW t \in DOMAIN txs, ThirdPartyFinalize(t)
       PROVE  t \in LandedTxs /\ BatchFinalized(t)
  BY <1>4, <1>11 DEF ThirdPartyFinalize
<1>12. CASE UNCHANGED vars
  BY <1>1, <1>12 DEF vars
<1> QED
  BY <1>3, <1>6, <1>7, <1>8, <1>9, <1>10, <1>11, <1>12 DEF Next

(* The batches of X with a receipt, among the transactions T: the sets that *)
(* Copies counts.                                                           *)
With(T, X, r) == {t \in X : r \in Range(T[t].root)}

(* The refinement mapping counts these sets, before and after a step. *)
LEMMA CopiesCount ==
    /\ Copies(LandedTxs) = [r \in Receipts |-> Cardinality(With(txs, LandedTxs, r))]
    /\ Copies(chainFinalized)
          = [r \in Receipts |-> Cardinality(With(txs, chainFinalized, r))]
    /\ Copies(LandedTxs)' = [r \in Receipts |-> Cardinality(With(txs', LandedTxs', r))]
    /\ Copies(chainFinalized)'
          = [r \in Receipts |-> Cardinality(With(txs', chainFinalized', r))]
  BY DEF Copies, With

(* Receipts in one batch only count for one. *)
LEMMA CountsUpToOne ==
    /\ Cardinality({}) = 0
    /\ \A t : Cardinality({t}) = 1
  BY FS_EmptySet, FS_Singleton

(* Where nothing changes on chain, neither do the abstract variables. *)
LEMMA ChainSameStutters ==
    ASSUME ClientInv, ChainSame
    PROVE  /\ Copies(LandedTxs)' = Copies(LandedTxs)
           /\ Copies(chainFinalized)' = Copies(chainFinalized)
<1>1. chainFinalized \subseteq LandedTxs
  BY DEF ClientInv
<1>2. \A r : /\ With(txs', LandedTxs', r) = With(txs, LandedTxs, r)
            /\ With(txs', chainFinalized', r) = With(txs, chainFinalized, r)
  BY <1>1 DEF ChainSame, With
<1> QED
  BY <1>2, CopiesCount

(* A batch that lands settles exactly its receipts, none of which was       *)
(* settled before.                                                          *)
LEMMA LandingSettles ==
    ASSUME ClientInv, NEW t \in LiveIn(txs), BatchLands(t)
    PROVE  Abstract!Settle(Range(txs[t].root))
<1> DEFINE S == Range(txs[t].root)
<1>1. \A u \in LandedTxs : u \in LiveIn(txs) /\ u # t
  BY LandedIsLive DEF BatchLands, LiveIn
<1>2. \A r \in S : With(txs, LandedTxs, r) = {} /\ With(txs', LandedTxs', r) = {t}
  BY <1>1 DEF With, BatchLands, ClientInv, OnceInv
<1>3. \A r : r \notin S => With(txs', LandedTxs', r) = With(txs, LandedTxs, r)
  BY DEF With, BatchLands
<1>4. \A r : With(txs', chainFinalized', r) = With(txs, chainFinalized, r)
  BY DEF With, BatchLands, ClientInv
<1>5. S \subseteq Receipts
  <2>1. txs[t].root \in Roots
    BY TxDomain DEF ClientInv, LiveIn, TxType
  <2> QED
    BY <2>1, RootHoldsReceipts
<1> HIDE DEF S
<1>6. \A r \in S : Copies(LandedTxs)[r] = 0
  BY <1>2, <1>5, CopiesCount, CountsUpToOne
<1>7. Copies(LandedTxs)'
        = [r \in Receipts |-> IF r \in S THEN 1 ELSE Copies(LandedTxs)[r]]
  <2>1. \A r \in S : Cardinality(With(txs', LandedTxs', r)) = 1
    BY <1>2, CountsUpToOne
  <2>2. \A r \in Receipts : r \notin S =>
            Cardinality(With(txs', LandedTxs', r)) = Copies(LandedTxs)[r]
    BY <1>3, CopiesCount
  <2> QED
    BY <2>1, <2>2, CopiesCount
<1>8. Copies(chainFinalized)' = Copies(chainFinalized)
  BY <1>4, CopiesCount
<1> QED
  BY <1>6, <1>7, <1>8 DEF Abstract!Settle, S

(* A batch that is finalized pays exactly its receipts, each of them        *)
(* settled in this batch and in no other, and none paid before.             *)
LEMMA FinalizingPays ==
    ASSUME ClientInv, NEW t \in LandedTxs, BatchFinalized(t)
    PROVE  Abstract!Pay(Range(txs[t].root))
<1> DEFINE S == Range(txs[t].root)
<1>1. \A u \in LandedTxs : u \in LiveIn(txs)
  BY LandedIsLive DEF LiveIn
<1>2. chainFinalized \subseteq LandedTxs /\ t \notin chainFinalized
  BY DEF ClientInv, BatchFinalized
<1>3. \A r \in S : \A u \in LandedTxs : r \in Range(txs[u].root) => u = t
  BY <1>1 DEF ClientInv, OnceInv
<1>4. \A r \in S : /\ With(txs, LandedTxs, r) = {t}
                  /\ With(txs, chainFinalized, r) = {}
                  /\ With(txs', chainFinalized', r) = {t}
  BY <1>2, <1>3 DEF With, BatchFinalized
<1>5. \A r : r \notin S => With(txs', chainFinalized', r) = With(txs, chainFinalized, r)
  BY DEF With, BatchFinalized
<1>6. LandedTxs' = LandedTxs
  BY DEF BatchFinalized, LandedTxs, Landed
<1>7. \A r : With(txs', LandedTxs', r) = With(txs, LandedTxs, r)
  BY <1>6 DEF With, BatchFinalized
<1>8. S \subseteq Receipts
  <2>1. txs[t].root \in Roots
    BY TxDomain, LandedIsLive DEF ClientInv, TxType
  <2> QED
    BY <2>1, RootHoldsReceipts
<1> HIDE DEF S
<1>9. \A r \in S : Copies(LandedTxs)[r] = 1 /\ Copies(chainFinalized)[r] = 0
  <2>1. \A r \in S : /\ Cardinality(With(txs, LandedTxs, r)) = 1
                    /\ Cardinality(With(txs, chainFinalized, r)) = 0
    BY <1>4, CountsUpToOne
  <2> QED
    BY <1>8, <2>1, CopiesCount
<1>10. Copies(chainFinalized)'
         = [r \in Receipts |-> IF r \in S THEN 1 ELSE Copies(chainFinalized)[r]]
  <2>1. \A r \in S : Cardinality(With(txs', chainFinalized', r)) = 1
    BY <1>4, CountsUpToOne
  <2>2. \A r \in Receipts : r \notin S =>
            Cardinality(With(txs', chainFinalized', r)) = Copies(chainFinalized)[r]
    BY <1>5, CopiesCount
  <2> QED
    BY <2>1, <2>2, CopiesCount
<1>11. Copies(LandedTxs)' = Copies(LandedTxs)
  BY <1>7, CopiesCount
<1> QED
  BY <1>9, <1>10, <1>11 DEF Abstract!Pay, S

(* A receipt is settled in at most one batch and paid at most once after    *)
(* that: the client, with its intents, quarantine, dedup ledger and restart *)
(* rule, implements ReceiptSettlement (commit_ready_batches, accumulate,    *)
(* _restore_pending), for every number of receipts, transactions, failing   *)
(* saves and crashes.                                                       *)
THEOREM ClientSettlesOnce == Spec => SettlesOnce
<1>1. Init => Abstract!Init
  <2> SUFFICES ASSUME Init PROVE Abstract!Init
    OBVIOUS
  <2>1. LandedTxs = {} /\ chainFinalized = {}
    BY DEF Init, LandedTxs
  <2>2. \A r : With(txs, LandedTxs, r) = {} /\ With(txs, chainFinalized, r) = {}
    BY <2>1 DEF With
  <2> QED
    BY <2>2, CopiesCount, CountsUpToOne DEF Abstract!Init
<1>2. ClientInv /\ [Next]_vars
        => [Abstract!Next]_<<Copies(LandedTxs), Copies(chainFinalized)>>
  <2> SUFFICES ASSUME ClientInv, [Next]_vars
               PROVE  [Abstract!Next]_<<Copies(LandedTxs), Copies(chainFinalized)>>
    OBVIOUS
  <2>1. \A t \in DOMAIN txs : Range(txs[t].root) \subseteq Receipts
    BY TxDomain, RootHoldsReceipts DEF ClientInv, TxType
  <2>2. ASSUME NEW t \in LiveIn(txs), BatchLands(t) PROVE Abstract!Next
    <3>1. Range(txs[t].root) \in SUBSET Receipts
      BY <2>1 DEF LiveIn
    <3> QED
      BY <2>2, <3>1, LandingSettles DEF Abstract!Next
  <2>3. ASSUME NEW t \in LandedTxs, BatchFinalized(t) PROVE Abstract!Next
    <3>1. Range(txs[t].root) \in SUBSET Receipts
      BY <2>1, LandedIsLive
    <3> QED
      BY <2>3, <3>1, FinalizingPays DEF Abstract!Next
  <2>4. CASE ChainSame
    BY <2>4, ChainSameStutters
  <2> QED
    BY <2>2, <2>3, <2>4, ChainStep
<1> QED
  BY <1>1, <1>2, ClientInvAlways, PTL DEF Spec, SettlesOnce, Abstract!Spec
================================================================================
