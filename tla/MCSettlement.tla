----------------------------- MODULE MCSettlement -----------------------------
(* Small instances of Settlement for TLC. *)
EXTENDS Settlement, TLC

Leaf(job, out, at, v, ok) ==
    [jobShard |-> job, output |-> out, executedAt |-> at, value |-> v, sigValid |-> ok]

(* One worthless receipt, for the runs about time. *)
OneLeaf == {Leaf("j1", "o1", 0, 0, TRUE)}
OneRoot == {OneLeaf}

(* Bound: the run about time does not look beyond a paused escrow pool,     *)
(* which that run's batches never pay from.                                 *)
PoolOpen == ~poolPaused

(* A genuine receipt, and one that disagrees and has a bad signature. *)
GoodLeaf == Leaf("j1", "o1", 0, 1, TRUE)
ForgedLeaf == Leaf("j1", "o2", 1, 2, FALSE)
TwoLeaves == {GoodLeaf, ForgedLeaf}
TwoRoots == {{GoodLeaf}, {GoodLeaf, ForgedLeaf}}

(* Providers are interchangeable. *)
ProviderSymmetry == Permutations(Providers)

(* The settings that are not as deployed, for the batches committed so far  *)
(* or for those to come.                                                    *)
Rewired ==
    LET committed == {id \in BatchIds : batches[id].status # "NONEXISTENT"}
        Moved(live, pinned(_), deployed) ==
            live # deployed \/ \E id \in committed : pinned(id) # deployed
    IN  {s \in {
            <<"pool", Moved(escrowPool, PayingPool, EscrowPoolAddr)>>,
            <<"bond", Moved(stakeBond, SlashedBond, StakeBondAddr)>>,
            <<"verifier", Moved(signatureVerifier,
                LAMBDA id : batches[id].signatureVerifierAtCommit, VerifierAddr)>>,
            <<"lookback", Moved(settlementLookbackWindowSeconds,
                LAMBDA id : batches[id].lookbackWindowSecondsAtCommit, 1)>>,
            <<"window", Moved(challengeWindowSeconds, WindowOf, 1)>>} : s[2]}

(* Bound: the owner moves one setting, around at most one challenge. *)
FewRewired ==
    Rewired # {} => Cardinality(Rewired) = 1 /\ Cardinality(challengeLog) <= 1

(* Only a receipt that can be slashed for. *)
ForgedOnly == {ForgedLeaf}
ForgedRoots == {ForgedOnly}
================================================================================
