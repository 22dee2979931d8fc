------------------------------- MODULE TxFeed -------------------------------
(***************************************************************************)
(* What BlockProcessor.advance_txs reads out of the txs of a block and     *)
(* hands to every overlay index: the refs of the outputs, what the inputs  *)
(* spend, the glyph envelopes, the advertisements.                         *)
(*                                                                         *)
(* A ref names a token.  Kind "nft" is a singleton, which at most one      *)
(* unspent output carries; kind "ft" a normal ref.                         *)
(***************************************************************************)
EXTENDS UndoLog, SequencesExt, TLC

CONSTANTS
    BlockTxs,   \* name of a block -> its txs, each
                \*   [outs, spends, inEnvs, outEnvs, ads, beacons], outs and reveals
                \*   with what the indexes of a composition look at
                \*   outs: <<[op, owner, value, refs, dead, contract]>>
                \*     refs: <<[ref, kind]>>, in the order of the script
                \*     dead: the script ends in OP_RETURN
                \*     contract: {} or {[reward, max]}, a mining contract's state
                \*   spends: outpoints; inEnvs, outEnvs: glyph reveals found in
                \*     input scripts and in OP_RETURN outputs; ads, beacons:
                \*     advertisements of the order book, of listings and markets
    MintOf,     \* ref -> the tx that minted it: the first 32 bytes of the ref
    RefOrder,   \* the refs in the order of their bytes, a sequence
    ReorgLimit  \* env.reorg_limit

(* F(v), with v evaluated first: a fold over many blocks stays shallow for TLC. *)
Eagerly(v, F(_)) == CHOOSE y \in {F(x) : x \in {v}} : TRUE

AllTxs == UNION {Range(BlockTxs[name]) : name \in DOMAIN BlockTxs}
AllOutputs == UNION {Range(tx.outs) : tx \in AllTxs}
Output == [op \in {o.op : o \in AllOutputs} |-> CHOOSE o \in AllOutputs : o.op = op]

RefsOf(o) == {r.ref : r \in Range(o.refs)}
Carries(o, ref, kind) == \E r \in Range(o.refs) : r.ref = ref /\ r.kind = kind
Singletons(o) == {ref \in RefsOf(o) : Carries(o, ref, "nft")}

(* Every ref that the outputs push, in order. *)
PushedRefs(tx) == FlattenSeq([j \in DOMAIN tx.outs |-> tx.outs[j].refs])

(* spent_singleton_refs *)
SpentSingletons(tx) == UNION {Singletons(Output[op]) : op \in tx.spends}

-----------------------------------------------------------------------------
(* The chain's view, for the properties and for reads of the core tables. *)

TxsOf(chain) == FlattenSeq([h \in DOMAIN chain |-> BlockTxs[chain[h]]])
Made(chain) == UNION {Range(tx.outs) : tx \in Range(TxsOf(chain))}
UnspentAfter(chain) ==
    LET spent == UNION {tx.spends : tx \in Range(TxsOf(chain))}
    IN  {o \in Made(chain) : o.op \notin spent}

(* What process_tx of the token index returns: the first reveal, from the inputs if
   they have one. *)
EnvelopeOf(tx) ==
    LET envs == IF tx.inEnvs # << >> THEN tx.inEnvs ELSE tx.outEnvs
    IN  IF envs = << >> THEN {} ELSE {Head(envs)}

(* The singletons that the token index has, with their reveals, in the order of its
   rows: what the backfills of the other indexes scan. *)
RevealedIn(chain) ==
    LET Revealing(h, ref) == {i \in DOMAIN BlockTxs[chain[h]] :
            LET tx == BlockTxs[chain[h]][i]
                nfts == SelectSeq(PushedRefs(tx), LAMBDA r : r.kind = "nft")
            IN  EnvelopeOf(tx) # {} /\ nfts # << >> /\ Head(nfts).ref = ref}
        Tokens(ref) == UNION {
            {[ref |-> ref, deployed |-> h, env |-> CHOOSE e \in EnvelopeOf(BlockTxs[chain[h]][i]) : TRUE] :
                i \in Revealing(h, ref)} : h \in DOMAIN chain}
        known == SelectSeq(RefOrder, LAMBDA ref : Tokens(ref) # {})
    IN  [n \in DOMAIN known |-> CHOOSE x \in Tokens(known[n]) : TRUE]

(* The ri table when the DB holds the chain: put with the block that makes the
   outpoint, deleted with its undoing, and kept when the outpoint is spent. *)
RefsAfter(chain) ==
    [op \in {o.op : o \in {m \in Made(chain) : m.refs # << >>}} |-> RefsOf(Output[op])]
=============================================================================
