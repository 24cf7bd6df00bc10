------------------------------ MODULE EscrowPool ------------------------------
(****************************************************************************)
(* contracts/contracts/EscrowPool.sol: requesters deposit FTNS, withdraw it *)
(* freely, and the registry (immutable, set in the constructor) settles     *)
(* finalized batches out of it.  The ERC-20 is external: a transfer either  *)
(* moves the amount or reverts the whole call, and poolHoldings[t] is what  *)
(* the pool's address holds of token t.                                     *)
(****************************************************************************)
EXTENDS Integers

CONSTANTS
    Depositors,     \* addresses with an escrow balance
    Tokens,         \* ERC-20 contracts the owner may point the pool at
    Amounts,        \* amounts passed to deposit and withdraw
    MaxEscrow       \* bound: FTNS in the pool

ASSUME EscrowAssumption ==
    /\ Amounts \subseteq Nat
    /\ MaxEscrow \in Nat
    /\ Tokens # {}

VARIABLES
    balances,              \* requester -> escrowed FTNS
    totalEscrowedBalance,
    ftns,                  \* the token the pool currently points at
    poolHoldings,          \* token -> amount held by the pool's address
    poolPaused

poolVars == <<balances, totalEscrowedBalance, ftns, poolHoldings, poolPaused>>

PoolTypeOK ==
    /\ balances \in [Depositors -> Nat]
    /\ totalEscrowedBalance \in Int
    /\ ftns \in Tokens
    /\ poolHoldings \in [Tokens -> Int]
    /\ poolPaused \in BOOLEAN

PoolInit ==
    /\ balances = [r \in Depositors |-> 0]
    /\ totalEscrowedBalance = 0
    /\ ftns \in Tokens
    /\ poolHoldings = [t \in Tokens |-> 0]
    /\ poolPaused = FALSE

Deposit(r, amount) ==
    /\ ~poolPaused
    /\ amount > 0
    /\ totalEscrowedBalance + amount <= MaxEscrow
    /\ balances' = [balances EXCEPT ![r] = @ + amount]
    /\ totalEscrowedBalance' = totalEscrowedBalance + amount
    /\ poolHoldings' = [poolHoldings EXCEPT ![ftns] = @ + amount]
    /\ UNCHANGED <<ftns, poolPaused>>

(* The shared effect of withdraw and settleFromRequester: amount leaves r's *)
(* balance and the pool.                                                    *)
PayOut(r, amount) ==
    /\ ~poolPaused
    /\ amount > 0
    /\ balances[r] >= amount
    /\ balances' = [balances EXCEPT ![r] = @ - amount]
    /\ totalEscrowedBalance' = totalEscrowedBalance - amount
    /\ poolHoldings' = [poolHoldings EXCEPT ![ftns] = @ - amount]
    /\ UNCHANGED <<ftns, poolPaused>>

WithdrawEscrow(r, amount) == PayOut(r, amount)

(* Called by the registry only, inside finalizeBatch. *)
SettleFromRequester(r, amount) == PayOut(r, amount)

(* Defect: the token is swapped under the depositors. *)
SetFtnsTokenAnytime(t) ==
    /\ t # ftns
    /\ ftns' = t
    /\ UNCHANGED <<balances, totalEscrowedBalance, poolHoldings, poolPaused>>

(* Refused while anybody has a balance. *)
SetFtnsToken(t) ==
    /\ t # ftns
    /\ totalEscrowedBalance = 0
    /\ ftns' = t
    /\ UNCHANGED <<balances, totalEscrowedBalance, poolHoldings, poolPaused>>

PausePool ==
    /\ ~poolPaused
    /\ poolPaused' = TRUE
    /\ UNCHANGED <<balances, totalEscrowedBalance, ftns, poolHoldings>>

UnpausePool ==
    /\ poolPaused
    /\ poolPaused' = FALSE
    /\ UNCHANGED <<balances, totalEscrowedBalance, ftns, poolHoldings>>
================================================================================
