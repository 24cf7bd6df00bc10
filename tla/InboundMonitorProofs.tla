-------------------------- MODULE InboundMonitorProofs --------------------------
(****************************************************************************)
(* Proofs about InboundMonitor, for any deposits, links, confirmations,     *)
(* catch-up window, chain length and number of restarts.                    *)
(****************************************************************************)
EXTENDS InboundMonitor, TLAPS

USE MonitorAssumption

--------------------------------------------------------------------------------
(****************************************************************************)
(* Each deposit is credited at most once                                    *)
(****************************************************************************)

(* A deposit was credited as often as its key is among the transactions. *)
LedgerInv ==
    /\ keys \subseteq Deposits
    /\ credits \in [Deposits -> Nat]
    /\ \A d \in Deposits : credits[d] = IF d \in keys THEN 1 ELSE 0

(* The monitor credits every deposit at most once, also when both of its    *)
(* own layers have forgotten it (_credit_deposit and the ledger's           *)
(* idempotency key), with no assumption on the chain.                       *)
THEOREM DepositsCreditedOnce == Spec => []CreditedOnce
<1>1. Init => LedgerInv
  BY DEF Init, LedgerInv
<1>2. LedgerInv /\ [Next]_vars => LedgerInv'
  <2>1. ASSUME LedgerInv, NEW d \in Deposits, Credit(d) PROVE LedgerInv'
    BY <2>1 DEF LedgerInv, Credit
  <2>2. ASSUME LedgerInv, UNCHANGED <<keys, credits>> PROVE LedgerInv'
    BY <2>2 DEF LedgerInv
  <2>3. [Next]_vars => UNCHANGED <<keys, credits>> \/ \E d \in Deposits : Credit(d)
    BY DEF Next, TickStep, vars, chainVars, monitorVars, NewBlock, Reorg, FirstTick,
           BeginTick, Scan, ScanFailed, SkipDeposit, CreditDeposit, CreditFailed, EndTick,
           Restart
  <2> QED BY <2>1, <2>2, <2>3
<1>3. LedgerInv => CreditedOnce
  BY DEF LedgerInv, CreditedOnce
<1> QED
  BY <1>1, <1>2, <1>3, PTL DEF Spec

--------------------------------------------------------------------------------
(****************************************************************************)
(* Type correctness                                                         *)
(****************************************************************************)

(* The tick under way, field by field. *)
TickType ==
    /\ DOMAIN tick = {"at", "to", "todo"}
    /\ tick.at \in {"idle", "scan", "credit"}
    /\ tick.to \in Heights
    /\ tick.todo \subseteq Deposits
    /\ tick.at = "idle" => tick.todo = {}

(* What the types need: the tip is never above the highest one, and a tick  *)
(* starts from a scanned block.                                             *)
TypeInv ==
    /\ height \in Heights
    /\ highest \in Heights
    /\ height <= highest
    /\ block \in [Deposits -> Heights]
    /\ last \in Heights \cup {None}
    /\ checkpoint \in Heights \cup {None}
    /\ baseline \in Heights \cup {None}
    /\ seen \subseteq Deposits
    /\ marked \subseteq Deposits
    /\ LedgerInv
    /\ TickType
    /\ tick.at # "idle" => last # None
    /\ abandoned \subseteq Deposits
    /\ crashes \in 0 .. MaxCrashes

(* The invariant of the types holds at the start and through every step. *)
LEMMA TypeInvInit == Init => TypeInv
  BY DEF Init, TypeInv, TickType, LedgerInv, Heights, NoTick, None

(* No step of the chain, the tick or a restart breaks the types. *)
LEMMA TypeInvNext == TypeInv /\ [Next]_vars => TypeInv'
<1> SUFFICES ASSUME TypeInv, [Next]_vars PROVE TypeInv'
  OBVIOUS
<1> USE DEF TypeInv, chainVars, monitorVars
<1>1. ASSUME NEW D \in SUBSET Deposits, NewBlock(D) PROVE TypeInv'
  BY <1>1 DEF NewBlock, Heights, TickType, LedgerInv
<1>2. ASSUME NEW k \in 1 .. MaxReorg, Reorg(k) PROVE TypeInv'
  BY <1>2 DEF Reorg, Heights, TickType, LedgerInv
<1>3. ASSUME NEW saved \in BOOLEAN, FirstTick(saved) PROVE TypeInv'
  BY <1>3 DEF FirstTick, SaveCheckpoint, TickType, LedgerInv, NoTick
<1>4. CASE BeginTick
  <2>1. last' \in Heights /\ last' # None
    BY <1>4 DEF BeginTick, Resumed
  <2>2. tick' = [at |-> "scan", to |-> ConfirmedTip, todo |-> {}]
    BY <1>4 DEF BeginTick, NoTick
  <2>3. ConfirmedTip \in Heights
    BY <1>4, <2>1 DEF BeginTick, ConfirmedTip, Heights
  <2> QED
    BY <1>4, <2>1, <2>2, <2>3 DEF BeginTick, TickType, LedgerInv
<1>5. CASE Scan
  BY <1>5 DEF Scan, TickType, LedgerInv
<1>6. CASE ScanFailed
  BY <1>6 DEF ScanFailed, TickType, LedgerInv, NoTick, Heights
<1>7. ASSUME NEW d \in Deposits, SkipDeposit(d) PROVE TypeInv'
  BY <1>7 DEF SkipDeposit, Handled, TickType, LedgerInv
<1>8. ASSUME NEW d \in Deposits, NEW lookup \in BOOLEAN, NEW ok \in BOOLEAN,
             CreditDeposit(d, lookup, ok)
      PROVE TypeInv'
  BY <1>8 DEF CreditDeposit, Credit, MarkCredited, Handled, TickType, LedgerInv
<1>9. ASSUME NEW d \in Deposits, NEW lookup \in BOOLEAN, CreditFailed(d, lookup)
      PROVE TypeInv'
  BY <1>9 DEF CreditFailed, Handled, TickType, LedgerInv
<1>10. ASSUME NEW saved \in BOOLEAN, EndTick(saved) PROVE TypeInv'
  BY <1>10 DEF EndTick, SaveCheckpoint, TickType, LedgerInv, NoTick, Heights
<1>11. CASE Restart
  BY <1>11 DEF Restart, TickType, LedgerInv, NoTick, Heights
<1>12. CASE UNCHANGED vars
  BY <1>12 DEF vars, TickType, LedgerInv
<1> QED
  BY <1>1, <1>2, <1>3, <1>4, <1>5, <1>6, <1>7, <1>8, <1>9, <1>10, <1>11, <1>12
     DEF Next, TickStep

--------------------------------------------------------------------------------
(****************************************************************************)
(* Credits are backed, and no deposit is skipped                            *)
(****************************************************************************)

(* A block that no reorganisation reaches any more. *)
Final(b) == b <= highest - MaxReorg

(* A reorganisation stays within MaxReorg of the highest tip, and no block  *)
(* is above the tip.                                                        *)
ChainInv ==
    /\ height >= highest - MaxReorg
    /\ \A d \in Deposits : block[d] <= height

(* What was credited, and so what either dedup layer knows, is in a final   *)
(* block.                                                                   *)
BackedInv ==
    /\ \A d \in Deposits : credits[d] > 0 => block[d] > 0 /\ Final(block[d])
    /\ \A d \in seen \cup marked : credits[d] > 0

(* The window of a tick ends in a final block; what is left to do lies in   *)
(* it.                                                                      *)
WindowInv ==
    tick.at # "idle" =>
        /\ last < tick.to
        /\ Final(tick.to)
        /\ \A d \in tick.todo : block[d] > 0 /\ block[d] <= tick.to

(* Every linked deposit after the baseline and up to block b is credited,   *)
(* given up or still in S.                                                  *)
Covered(b, S) ==
    \A d \in (Linked \ abandoned) \ S :
        block[d] > baseline /\ block[d] <= b => credits[d] > 0

(* A scanned-up-to block is the baseline itself or a final block above it,  *)
(* and what lies between is covered.                                        *)
ScannedInv(b) ==
    b # None => /\ baseline # None
                /\ b >= baseline
                /\ b > baseline => Final(b)
                /\ Covered(b, {})

(* The inductive invariant.  Both the block in memory and the checkpoint on *)
(* disk are covered, since a restart goes back to the latter.               *)
DepositInv ==
    /\ TypeInv
    /\ ChainInv
    /\ BackedInv
    /\ WindowInv
    /\ ScannedInv(last)
    /\ ScannedInv(checkpoint)
    /\ tick.at = "credit" => Covered(tick.to, tick.todo)

(* The invariant holds at the start. *)
LEMMA DepositInvInit == Init => DepositInv
<1> SUFFICES ASSUME Init PROVE DepositInv
  OBVIOUS
<1>1. TypeInv
  BY TypeInvInit
<1> QED
  BY <1>1 DEF Init, DepositInv, ChainInv, BackedInv, WindowInv, ScannedInv, Final,
              NoTick, None

(* Every step preserves it, if the confirmations are at least as deep as a  *)
(* reorganisation: a final block then stays, and a new one lies above every *)
(* block that was scanned after the baseline.                               *)
LEMMA DepositInvNext ==
    ASSUME MaxReorg <= Confirmations, DepositInv, [Next]_vars
    PROVE  DepositInv'
<1>0. TypeInv /\ TypeInv'
  BY TypeInvNext DEF DepositInv
<1> USE DEF chainVars, monitorVars
<1>1. ASSUME NEW D \in SUBSET Deposits, NewBlock(D) PROVE DepositInv'
  <2> USE <1>1 DEF NewBlock
  <2>1. ChainInv'
    BY <1>0 DEF DepositInv, TypeInv, ChainInv, Heights
  <2>2. BackedInv'
    BY <1>0 DEF DepositInv, TypeInv, BackedInv, Final, Heights
  <2>3. WindowInv'
    BY <1>0 DEF DepositInv, TypeInv, TickType, WindowInv, Final, Heights, None
  <2>4. ScannedInv(last)' /\ ScannedInv(checkpoint)'
    BY <1>0 DEF DepositInv, TypeInv, ChainInv, ScannedInv, Covered, Final, Heights, None
  <2>5. (tick.at = "credit" => Covered(tick.to, tick.todo))'
    BY <1>0 DEF DepositInv, TypeInv, TickType, ChainInv, WindowInv, Covered, Final,
                Heights, None
  <2> QED
    BY <1>0, <2>1, <2>2, <2>3, <2>4, <2>5 DEF DepositInv
<1>2. ASSUME NEW k \in 1 .. MaxReorg, Reorg(k) PROVE DepositInv'
  <2> USE <1>2 DEF Reorg
  <2>1. ChainInv'
    BY <1>0 DEF DepositInv, TypeInv, ChainInv, Heights
  <2>2. BackedInv'
    BY <1>0 DEF DepositInv, TypeInv, BackedInv, Final, Heights
  <2>3. WindowInv'
    BY <1>0 DEF DepositInv, TypeInv, TickType, WindowInv, Final, Heights, None
  <2>4. ScannedInv(last)' /\ ScannedInv(checkpoint)'
    BY <1>0 DEF DepositInv, TypeInv, ChainInv, ScannedInv, Covered, Final, Heights, None
  <2>5. (tick.at = "credit" => Covered(tick.to, tick.todo))'
    BY <1>0 DEF DepositInv, TypeInv, TickType, ChainInv, WindowInv, ScannedInv, Covered,
                Final, Heights, None
  <2> QED
    BY <1>0, <2>1, <2>2, <2>3, <2>4, <2>5 DEF DepositInv
<1>3. ASSUME NEW saved \in BOOLEAN, FirstTick(saved) PROVE DepositInv'
  <2> USE <1>3 DEF FirstTick, SaveCheckpoint
  <2>1. ChainInv' /\ BackedInv' /\ WindowInv'
    BY DEF DepositInv, ChainInv, BackedInv, WindowInv, Final, NoTick
  <2>2. ScannedInv(last)' /\ ScannedInv(checkpoint)'
    BY <1>0 DEF DepositInv, TypeInv, ScannedInv, Covered, Heights, None
  <2> QED
    BY <1>0, <2>1, <2>2 DEF DepositInv, NoTick
<1>4. CASE BeginTick
  <2>1. tick' = [at |-> "scan", to |-> ConfirmedTip, todo |-> {}]
    BY <1>4 DEF BeginTick, NoTick
  <2>2. ChainInv' /\ BackedInv'
    BY <1>4 DEF BeginTick, DepositInv, ChainInv, BackedInv, Final
  <2>3. WindowInv'
    <3>1. tick'.to = ConfirmedTip /\ tick'.todo = {}
      BY <2>1
    <3>2. last' < ConfirmedTip
      BY <1>0, <1>4 DEF BeginTick, ConfirmedTip, TypeInv, Heights, None
    <3>3. Final(ConfirmedTip) /\ highest' = highest
      BY <1>0, <1>4 DEF BeginTick, Final, ConfirmedTip, TypeInv, Heights
    <3> HIDE DEF ConfirmedTip
    <3> QED
      BY <3>1, <3>2, <3>3 DEF WindowInv, Final
  <2>4. ScannedInv(last)' /\ ScannedInv(checkpoint)'
    BY <1>4 DEF BeginTick, Resumed, DepositInv, ScannedInv, Covered, Final
  <2> QED
    BY <1>0, <2>1, <2>2, <2>3, <2>4 DEF DepositInv
<1>5. CASE Scan
  <2> USE <1>5 DEF Scan
  <2>0. /\ tick'.at = "credit"
        /\ tick'.to = tick.to
        /\ tick'.todo = {d \in Deposits : block[d] \in last + 1 .. tick.to}
                          \ {d \in Deposits : block[d] \in 0 .. tick.to - MaxCatchup}
    BY <1>0 DEF TypeInv, TickType
  <2>1. ChainInv' /\ BackedInv'
    BY DEF DepositInv, ChainInv, BackedInv, Final
  <2>2. WindowInv'
    BY <1>0, <2>0 DEF DepositInv, TypeInv, TickType, WindowInv, Final, Heights, None
  <2>3. ScannedInv(last)' /\ ScannedInv(checkpoint)'
    BY DEF DepositInv, ScannedInv, Covered, Final
  <2>4. Covered(tick.to, tick.todo)'
    BY <1>0, <2>0 DEF DepositInv, TypeInv, TickType, ScannedInv, Covered, Heights, None
  <2> QED
    BY <1>0, <2>1, <2>2, <2>3, <2>4 DEF DepositInv
<1>6. CASE ScanFailed
  BY <1>0, <1>6 DEF ScanFailed, DepositInv, ChainInv, BackedInv, WindowInv, ScannedInv,
                    Covered, Final, NoTick
<1>7. ASSUME NEW d \in Deposits, SkipDeposit(d) PROVE DepositInv'
  <2> USE <1>7 DEF SkipDeposit, Handled
  <2>0. tick'.at = tick.at /\ tick'.to = tick.to /\ tick'.todo = tick.todo \ {d}
    BY <1>0 DEF TypeInv, TickType
  <2>1. ChainInv' /\ BackedInv' /\ WindowInv'
    BY <2>0 DEF DepositInv, ChainInv, BackedInv, WindowInv, Final
  <2>2. ScannedInv(last)' /\ ScannedInv(checkpoint)'
    BY DEF DepositInv, ScannedInv, Covered, Final
  <2>3. (tick.at = "credit" => Covered(tick.to, tick.todo))'
    BY <2>0 DEF DepositInv, BackedInv, Covered
  <2> QED
    BY <1>0, <2>1, <2>2, <2>3 DEF DepositInv
<1>8. ASSUME NEW d \in Deposits, NEW lookup \in BOOLEAN, NEW ok \in BOOLEAN,
             CreditDeposit(d, lookup, ok)
      PROVE DepositInv'
  <2> USE <1>8 DEF CreditDeposit, Unknown, MarkCredited, Handled
  <2>0. tick'.at = tick.at /\ tick'.to = tick.to /\ tick'.todo = tick.todo \ {d}
    BY <1>0 DEF TypeInv, TickType
  <2>1. /\ credits'[d] > 0
        /\ \A i \in Deposits \ {d} : credits'[i] = credits[i]
    BY <1>0 DEF TypeInv, LedgerInv, Credit
  <2>2. ChainInv' /\ WindowInv'
    BY <2>0 DEF DepositInv, ChainInv, WindowInv, Final
  <2>3. BackedInv'
    <3>1. block[d] > 0 /\ Final(block[d])
      BY <1>0 DEF DepositInv, TypeInv, TickType, WindowInv, Final, Heights
    <3>2. seen \subseteq Deposits /\ marked \subseteq Deposits
      BY <1>0 DEF TypeInv
    <3> QED
      BY <2>1, <3>1, <3>2 DEF DepositInv, BackedInv, Final
  <2>4. ScannedInv(last)' /\ ScannedInv(checkpoint)'
    BY <2>1 DEF DepositInv, ScannedInv, Covered, Final
  <2>5. (tick.at = "credit" => Covered(tick.to, tick.todo))'
    BY <2>0, <2>1 DEF DepositInv, Covered
  <2> QED
    BY <1>0, <2>2, <2>3, <2>4, <2>5 DEF DepositInv
<1>9. ASSUME NEW d \in Deposits, NEW lookup \in BOOLEAN, CreditFailed(d, lookup)
      PROVE DepositInv'
  <2> USE <1>9 DEF CreditFailed, Unknown, Handled
  <2>0. tick'.at = tick.at /\ tick'.to = tick.to /\ tick'.todo = tick.todo \ {d}
    BY <1>0 DEF TypeInv, TickType
  <2>1. ChainInv' /\ BackedInv' /\ WindowInv'
    BY <2>0 DEF DepositInv, ChainInv, BackedInv, WindowInv, Final
  <2>2. ScannedInv(last)' /\ ScannedInv(checkpoint)'
    BY DEF DepositInv, ScannedInv, Covered, Final
  <2>3. (tick.at = "credit" => Covered(tick.to, tick.todo))'
    BY <2>0 DEF DepositInv, Covered
  <2> QED
    BY <1>0, <2>1, <2>2, <2>3 DEF DepositInv
<1>10. ASSUME NEW saved \in BOOLEAN, EndTick(saved) PROVE DepositInv'
  <2> USE <1>10 DEF EndTick, SaveCheckpoint
  <2>1. ChainInv' /\ BackedInv' /\ WindowInv'
    BY DEF DepositInv, ChainInv, BackedInv, WindowInv, Final, NoTick
  <2>2. ScannedInv(last)'
    BY <1>0 DEF DepositInv, TypeInv, TickType, WindowInv, ScannedInv, Covered, Final,
                Heights, None
  <2>3. ScannedInv(checkpoint)'
    BY <2>2 DEF DepositInv, ScannedInv, Covered, Final
  <2> QED
    BY <1>0, <2>1, <2>2, <2>3 DEF DepositInv, NoTick
<1>11. CASE Restart
  BY <1>0, <1>11 DEF Restart, DepositInv, ChainInv, BackedInv, WindowInv, ScannedInv,
                     Covered, Final, NoTick
<1>12. CASE UNCHANGED vars
  BY <1>0, <1>12 DEF vars, DepositInv, ChainInv, BackedInv, WindowInv, ScannedInv,
                     Covered, Final
<1> QED
  BY <1>1, <1>2, <1>3, <1>4, <1>5, <1>6, <1>7, <1>8, <1>9, <1>10, <1>11, <1>12
     DEF Next, TickStep

(* The invariant, always. *)
LEMMA DepositInvAlways ==
    ASSUME MaxReorg <= Confirmations
    PROVE  Spec => []DepositInv
<1>1. DepositInv /\ [Next]_vars => DepositInv'
  BY DepositInvNext
<1> QED
  BY <1>1, DepositInvInit, PTL DEF Spec

(* A credit is never left without its deposit: with confirmations as deep   *)
(* as a reorganisation may reach (confirmed_tip), a credited deposit stays  *)
(* on the chain.                                                            *)
THEOREM CreditsBacked ==
    ASSUME MaxReorg <= Confirmations
    PROVE  Spec => []CreditIsBacked
<1>1. DepositInv => CreditIsBacked
  BY DEF DepositInv, TypeInv, BackedInv, CreditIsBacked, Heights
<1> QED
  BY <1>1, DepositInvAlways, PTL

(* The checkpoint never passes a deposit nobody credited, over failing      *)
(* scans and saves, restarts, and reorganisations no deeper than the        *)
(* confirmations (_tick_async).                                             *)
THEOREM NoDepositSkipped ==
    ASSUME MaxReorg <= Confirmations
    PROVE  Spec => []NoneSkipped
<1>1. DepositInv => NoneSkipped
  BY DEF DepositInv, TypeInv, ScannedInv, Covered, NoneSkipped, Heights, None
<1> QED
  BY <1>1, DepositInvAlways, PTL

================================================================================
