---------------------------- MODULE ServingParts ----------------------------
(***************************************************************************)
(* Four parts around the index that share no state with one another: what  *)
(* clients read (ClientReads), the proofs of headers (HeaderProofs), the   *)
(* history DB under compaction (HistoryCompaction) and the tokens of the   *)
(* mempool (PoolTokens).  A behaviour is that of one of them, chosen at    *)
(* the start; the others stay as they are.                                 *)
(***************************************************************************)
EXTENDS ClientReads, HeaderProofs, HistoryCompaction, PoolTokens

VARIABLE part

servingVars == <<readVars, proofVars, compactionVars, poolVars, part>>

Init ==
    /\ part \in {"reads", "proofs", "compaction", "pool"}
    /\ ReadsInit /\ ProofsInit /\ CompactionInit /\ PoolInit
    /\ part # "reads" => \A x \in HashXs : told[x] = Absent

Reads == part = "reads" /\ ReadsNext /\ UNCHANGED <<proofVars, compactionVars, poolVars, part>>
Proofs == part = "proofs" /\ ProofsNext /\ UNCHANGED <<readVars, compactionVars, poolVars, part>>
Compaction == part = "compaction" /\ CompactionNext /\ UNCHANGED <<readVars, proofVars, poolVars, part>>
Pool == part = "pool" /\ PoolNext /\ UNCHANGED <<readVars, proofVars, compactionVars, part>>

Next == Reads \/ Proofs \/ Compaction \/ Pool

Spec == Init /\ [][Next]_servingVars

-----------------------------------------------------------------------------
(* What clients are answered from follows the DB: AnswersFollowRows. *)
ReadsHold == part = "reads" => AnswersFollowRows

(* Headers are proven under the root of the chain: ProofsFollowChain. *)
ProofsHold == part = "proofs" => ProofsFollowChain

(* Compaction leaves every address its history: HistoryKept. *)
CompactionHolds == part = "compaction" => HistoryKept

(* Wallets and traders see the mempool as it is: PoolViewsFollow. *)
PoolHolds == part = "pool" => PoolViewsFollow
=============================================================================
