----------------------------- MODULE MCWithdrawals -----------------------------
(* Small instances of Withdrawals for TLC. *)
EXTENDS Withdrawals

OneWallet == [j \in Jobs |-> CHOOSE w \in Wallets : TRUE]
================================================================================
