--------------------------- MODULE OverlayIndexes ---------------------------
(***************************************************************************)
(* The overlay indexes along the chain: the block processor gives every    *)
(* block to each index (advance_txs), each flush writes all of them in the *)
(* UTXO DB's batch (flush_dbs), each backed-up block is undone in all of   *)
(* them in the batch of flush_backup.  A kill loses what is not flushed.   *)
(*                                                                         *)
(* Where flushes and reorgs fall is left open: after any block, of any     *)
(* depth within the reorg limit.  How the DB itself survives is            *)
(* ChainStore's subject.                                                   *)
(***************************************************************************)
EXTENDS SwapIndex, DMintContracts

CONSTANTS Blocks,     \* each as its chain: the sequence of the names up to it
          FirstTip,   \* where indexing starts
          Reveals,    \* the [ref, height] that clients may report
          Denial,     \* the denylist that the operator may write
          MaxBackups  \* bound: blocks undone

VARIABLES tip, dbTip,
          top,     \* the height that the DB has reached
          backups  \* blocks undone so far

vars == <<tip, dbTip, top, backups, swVars, glVars, dmVars>>

(* Indexing starts where nothing has been advertised. *)
ASSUME BlocksAssumption ==
    /\ Blocks \subseteq Seq(DOMAIN BlockTxs)
    /\ FirstTip \in Blocks
    /\ \A x \in TxsAt(FirstTip) : TxAt(FirstTip, x).ads = << >>
    /\ \A b \in Blocks \ {FirstTip} : b # << >> /\ Front(b) \in Blocks
    /\ ReorgLimit \in Nat \ {0}

(* The txs of a block and the advertisements of a tx come in an order. *)
ASSUME FeedAssumption ==
    \A name \in DOMAIN BlockTxs :
        LET txs == BlockTxs[name]
        IN  /\ txs \in Seq(Range(txs))
            /\ \A i \in DOMAIN txs : txs[i].ads \in Seq(Range(txs[i].ads))

Advance ==
    \E b \in Blocks \ {FirstTip} :
        /\ Front(b) = tip
        /\ tip' = b
        /\ SwapAdvance(b, dbTip)
        /\ GlyphAdvance(b)
        /\ UNCHANGED <<dbTip, top, backups, dmVars>>

(* A client reports the key that a confirmed tx revealed; bound: once, and while the
   DB stands at that tx's block. *)
RecordKeyReveal ==
    \E r \in Reveals :
        /\ tip = dbTip /\ r.height = Len(tip)
        /\ r.ref \notin DOMAIN glCache.reveals /\ <<"KR", r.ref>> \notin DOMAIN glTable
        /\ record_key_reveal(r.ref, r.height)
        /\ UNCHANGED <<tip, dbTip, top, backups, swVars, dmVars>>

(* flush_dbs; at the DB's height it only asserts that nothing waits. *)
Commit ==
    /\ Len(tip) # Len(dbTip)
    /\ dbTip' = tip
    /\ top' = Max({top, Len(tip)})
    /\ SwapFlush(Len(tip)) /\ GlyphFlush(Len(tip), Len(dbTip))
    /\ UNCHANGED <<tip, backups>>

Flush == Commit /\ sync_from_index(Len(tip), glTable')

(* Killed after the commit and before the sync, and started again.  Bound: at the
   first height. *)
FlushKilled ==
    /\ Len(tip) = Len(FirstTip) + 1
    /\ Commit /\ DMintMissed

(* flush_backup, after the flush with which a reorg starts. *)
Backup ==
    /\ tip = dbTip /\ tip # FirstTip
    /\ Len(tip) > top - ReorgLimit
    /\ tip' = Front(tip) /\ dbTip' = Front(tip)
    /\ backups < MaxBackups /\ backups' = backups + 1
    /\ SwapBackup(Len(tip)) /\ GlyphBackup(Len(tip))
    /\ sync_from_index(Len(tip) - 1, glTable')
    /\ UNCHANGED top

Restart ==
    /\ tip' = dbTip
    /\ SwapRestart /\ GlyphRestart /\ DMintRestart
    /\ UNCHANGED <<dbTip, top, backups>>

(* A miner asks for the summaries, the operator denies a token.  Bounds: at one height,
   while nothing waits to be flushed; once. *)
AskContracts ==
    /\ tip = dbTip /\ Len(tip) = Len(FirstTip) + 2
    /\ ServeContracts
    /\ UNCHANGED <<tip, dbTip, top, backups, swVars, glVars>>

Deny ==
    /\ tip = dbTip /\ Len(tip) = Len(FirstTip) + 3
    /\ dmDenied = {} /\ backups = 0
    /\ EditDenylist(Denial)
    /\ UNCHANGED <<tip, dbTip, top, backups, swVars, glVars>>

Init ==
    /\ tip = FirstTip /\ dbTip = FirstTip
    /\ top = Len(FirstTip) /\ backups = 0
    /\ SwapInit /\ GlyphInit(FirstTip) /\ DMintInit(Len(FirstTip))

Next ==
    \/ Advance \/ Flush \/ FlushKilled \/ Backup \/ Restart
    \/ RecordKeyReveal \/ AskContracts \/ Deny

Spec == Init /\ [][Next]_vars

-----------------------------------------------------------------------------
(* Properties *)

(* What the indexes should hold, for each chain once. *)
BookAt == [b \in Blocks |-> BookOf(b)]
ResyncedAt == [b \in Blocks |-> Resynced(b)]
HeldAt == [b \in Blocks |-> Held(b)]

(* Types; the caches speak of the blocks that are not flushed, the undo records
   of the DB's. *)
TypeOK ==
    /\ {tip, dbTip} \subseteq Blocks /\ IsPrefix(dbTip, tip)
    /\ top \in Nat /\ backups \in 0 .. MaxBackups
    /\ swPruned \in Int /\ glPruned \in Int
    /\ DOMAIN orderCache = DOMAIN orderHeight
    /\ Range(orderHeight) \subseteq Len(dbTip) + 1 .. Len(tip)
    /\ DOMAIN swUndo \subseteq 1 .. Len(dbTip)
    /\ DOMAIN glUndo \subseteq 1 .. Len(dbTip) \cup {r.height : r \in Reveals}
    /\ DOMAIN glCache.tokens = DOMAIN glCache.tokenHeight
    /\ Range(glCache.tokenHeight) \subseteq Len(dbTip) + 1 .. Len(tip)
    /\ DOMAIN glCache.balances \cap glCache.deletes = {}

(* The open orders in the DB are those of the DB's chain: an advertisement counts
   until its backing outpoint is spent or it is replaced, and a reorg within the
   limit, whatever the flushes before it and the restarts between, puts back what
   it undoes.  Excepted are the orders whose rows depend on where the flushes
   fell: changed at two heights between two flushes, or advertised over a backing
   that _backing_utxo_offers_token read from a DB behind the chain. *)
BookFollowsChain ==
    LET Sharp(S) == {x \in S : x[1] \notin blurred}
    IN  Sharp(OpenOrders) = Sharp(BookAt[dbTip])

(* The three tables agree, for every order: it is in its pair's book and in its
   maker's list while it is open and no longer, and whatever is listed there has
   an order. *)
TablesAgree ==
    /\ \A id \in OrderIds :
          LET o == swTable[OrderKey(id)]
          IN  \A k \in PairKeys(id, o) \cup MakerKeys(id, o) :
                 k \in DOMAIN swTable <=> o.status = "open"
    /\ \A k \in DOMAIN swTable : k[1] # "order" => Last(k) \in OrderIds

(* The token rows in the DB are those of a node that indexed the DB's chain from its
   first block: deployments, reveals, mints, live contracts, companions, events and
   lists survive flushes, reorgs and restarts in any order.  Excepted are the rows
   changed at two heights between two flushes, and an index of which a client's key
   reveal has replaced an undo record that a reorg then needed. *)
TokensAsResynced == GlyphsAsResynced(ResyncedAt[dbTip])

(* Each owner's balance of a token, and the token's holders, are the sums over the
   unspent outputs of the DB's chain, with the same exceptions. *)
BalancesFollowChain == glAstray.hit \/ tip # dbTip \/ BalancesMatch(HeldAt[dbTip])

(* Miners are not shown summaries of a list that has changed since they were built,
   whatever the order of requests, flushes, kills and edits of the denylist, until a
   block is undone: a list that changes again at the same height keeps its key. *)
SummariesFresh == backups = 0 => SummariesExact

(* MineableFollows *)
MineableFollowsChain == MineableFollows(dbTip)

(* src/electrumx/server/swap_index.py:462: "Reorg unwinding reopens closed orders
   via the undo machinery."  It does not when the order was opened and closed
   between two flushes. *)
ReorgReopens == BookAt[dbTip] \subseteq OpenOrders
=============================================================================
