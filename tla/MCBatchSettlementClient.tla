------------------------ MODULE MCBatchSettlementClient ------------------------
(* Small instances of BatchSettlementClient for TLC. *)
EXTENDS BatchSettlementClient, TLC

(* One requester: every receipt has the same accumulator key. *)
OneKey == [r \in Receipts |-> CHOOSE k \in Keys : TRUE]

(* The receipts of one key are interchangeable. *)
ReceiptSymmetry == Permutations(Receipts)
================================================================================
