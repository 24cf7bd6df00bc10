--------------------------- MODULE ReceiptSettlement ---------------------------
(****************************************************************************)
(* What settling a receipt on chain promises, whoever batches the receipts  *)
(* and however often they crash or retry: a receipt enters the chain in at  *)
(* most one batch, and is paid at most once, after that.                    *)
(****************************************************************************)
EXTENDS Naturals

CONSTANT Receipts

VARIABLES settled,   \* receipt -> number of batches on chain that contain it
          paid       \* receipt -> number of those that were finalized

Init ==
    /\ settled = [r \in Receipts |-> 0]
    /\ paid = [r \in Receipts |-> 0]

(* A batch holding exactly the receipts S, none of them on chain yet. *)
Settle(S) ==
    /\ \A r \in S : settled[r] = 0
    /\ settled' = [r \in Receipts |-> IF r \in S THEN 1 ELSE settled[r]]
    /\ UNCHANGED paid

(* Such a batch is finalized. *)
Pay(S) ==
    /\ \A r \in S : settled[r] = 1 /\ paid[r] = 0
    /\ paid' = [r \in Receipts |-> IF r \in S THEN 1 ELSE paid[r]]
    /\ UNCHANGED settled

Next == \E S \in SUBSET Receipts : Settle(S) \/ Pay(S)

Spec == Init /\ [][Next]_<<settled, paid>>
================================================================================
