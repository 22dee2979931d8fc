----------------------------- MODULE SwapIndex -----------------------------
(***************************************************************************)
(* The order book of swap advertisements (server/swap_index.py).  An order *)
(* is named by the outpoint that backs it; an advertisement opens it, the  *)
(* spending of the outpoint closes it.  Changes stay in a cache until the  *)
(* flush, which writes three tables: the order, its key in the pair's book *)
(* and its key in the maker's list.                                        *)
(***************************************************************************)
EXTENDS TxFeed

(* An advertisement is [id, pair, price, maker, offers]: the outpoint, the two
   assets and the side, the price, the maker, the token that the outpoint should
   carry; pair and maker may be "none". *)

VARIABLES
    orderCache,  \* id -> order, not flushed
    orderHeight, \* id -> height of its last change
    swTable,     \* the rows in the UTXO DB
    swUndo,      \* the undo records in the UTXO DB
    swPruned,    \* _last_undo_pruned
    (* history: what only the properties look at *)
    blurred      \* ids whose rows depend on where the flushes fell

swVars == <<orderCache, orderHeight, swTable, swUndo, swPruned, blurred>>

OrderOf(ad) == [pair |-> ad.pair, price |-> ad.price, maker |-> ad.maker,
                status |-> "open", closed |-> 0]

(* _pair_key and _maker_key: none for an advertisement of version 1 *)
OrderKey(id) == <<"order", id>>
PairKeys(id, o) == {<<"pair", p, o.price, id>> : p \in {o.pair} \ {"none"}}
MakerKeys(id, o) == {<<"maker", m, id>> : m \in {o.maker} \ {"none"}}

-----------------------------------------------------------------------------
(* process_tx.  w is the cache with its heights, ri the refs that the DB has for
   outpoints. *)

get_order(w, id) ==
    IF id \in DOMAIN w.cache THEN {w.cache[id]} ELSE Get(swTable, OrderKey(id))

(* Into the cache, at height h. *)
Staged(w, orders, h) ==
    [cache |-> Written(w.cache, orders, {}),
     heights |-> Written(w.heights, [id \in DOMAIN orders |-> h], {})]

(* _close_order_if_open for each outpoint that the tx spends *)
Closed(w, spends, h) ==
    LET open == {id \in spends : \E o \in get_order(w, id) : o.status = "open"}
    IN  Staged(w,
               [id \in open |-> [(CHOOSE o \in get_order(w, id) : TRUE)
                                    EXCEPT !.status = "filled", !.closed = h]],
               h)

(* _backing_utxo_offers_token: refused only if the DB has refs for the outpoint
   and the offered token is not among them. *)
Admitted(ad, ri) ==
    \/ ad.offers = "RXD"
    \/ ad.id \notin DOMAIN ri
    \/ ad.offers \in ri[ad.id]

(* Closes first, and then the advertisements in the order of the outputs. *)
ProcessTx(w, tx, h, ri) ==
    FoldLeft(LAMBDA v, ad : IF Admitted(ad, ri)
                            THEN Staged(v, [id \in {ad.id} |-> OrderOf(ad)], h) ELSE v,
             Closed(w, tx.spends, h), tx.ads)

(* The block at the end of the chain b, when the DB holds the chain db. *)
SwapAdvance(b, db) ==
    LET h == Len(b)
        txs == BlockTxs[Last(b)]
        w == FoldLeft(LAMBDA v, tx : ProcessTx(v, tx, h, RefsAfter(db)),
                      [cache |-> orderCache, heights |-> orderHeight], txs)
        ads == UNION {Range(txs[i].ads) : i \in DOMAIN txs}
    IN  /\ orderCache' = w.cache
        /\ orderHeight' = w.heights
        /\ blurred' = blurred
              \cup {id \in DOMAIN orderHeight : w.heights[id] # orderHeight[id]}
              \cup {ad.id : ad \in {a \in ads : Admitted(a, RefsAfter(db))
                                                # Admitted(a, RefsAfter(Front(b)))}}
        /\ UNCHANGED <<swTable, swUndo, swPruned>>

-----------------------------------------------------------------------------
(* flush *)

IndexKeys(ids) ==
    UNION {PairKeys(id, orderCache[id]) \cup MakerKeys(id, orderCache[id]) : id \in ids}

FlushedTable ==
    LET open == {id \in DOMAIN orderCache : orderCache[id].status = "open"}
        rows == [k \in {OrderKey(id) : id \in DOMAIN orderCache} |-> orderCache[k[2]]]
        listed == [k \in IndexKeys(open) |-> ""]
    IN  Written(Written(swTable, rows, {}), listed, IndexKeys(DOMAIN orderCache \ open))

KeysAt ==
    [h \in Range(orderHeight) |->
        LET ids == {id \in DOMAIN orderHeight : orderHeight[id] = h}
        IN  {OrderKey(id) : id \in ids} \cup IndexKeys(ids)]

(* Mutant: a closed order stays in its maker's list. *)
SwapFlush_keeps_maker(height) ==
    LET makers == UNION {MakerKeys(id, orderCache[id]) : id \in DOMAIN orderCache}
        to == PruneTo(height, ReorgLimit)
    IN  /\ swTable' = [k \in DOMAIN FlushedTable \cup makers |->
                          IF k \in DOMAIN FlushedTable THEN FlushedTable[k] ELSE ""]
        /\ swUndo' = Recorded(Pruned(swUndo, swPruned, to), swTable, KeysAt)
        /\ swPruned' = IF to <= swPruned THEN swPruned ELSE to
        /\ orderCache' = << >> /\ orderHeight' = << >>
        /\ UNCHANGED blurred

(* Mutant: the heights stay. *)
SwapFlush_keeps_heights(height) ==
    LET to == PruneTo(height, ReorgLimit)
    IN  /\ swTable' = FlushedTable
        /\ swUndo' = Recorded(Pruned(swUndo, swPruned, to), swTable, KeysAt)
        /\ swPruned' = IF to <= swPruned THEN swPruned ELSE to
        /\ orderCache' = << >>
        /\ UNCHANGED <<orderHeight, blurred>>

(* The DB's height is already the flushed one. *)
SwapFlush(height) ==
    LET to == PruneTo(height, ReorgLimit)
    IN  /\ swTable' = FlushedTable
        /\ swUndo' = Recorded(Pruned(swUndo, swPruned, to), swTable, KeysAt)
        /\ swPruned' = IF to <= swPruned THEN swPruned ELSE to
        /\ orderCache' = << >> /\ orderHeight' = << >>
        /\ UNCHANGED blurred

SwapBackup(height) ==
    /\ swTable' = Reverted(swTable, swUndo, height)
    /\ swUndo' = Forgotten(swUndo, height)
    /\ UNCHANGED <<orderCache, orderHeight, swPruned, blurred>>

(* The process stops; __init__ runs before the DB is open, at height -1. *)
SwapRestart ==
    /\ orderCache' = << >> /\ orderHeight' = << >>
    /\ swPruned' = -1
    /\ UNCHANGED <<swTable, swUndo, blurred>>

SwapInit ==
    /\ orderCache = << >> /\ orderHeight = << >>
    /\ swTable = << >> /\ swUndo = << >> /\ swPruned = -1
    /\ blurred = {}

-----------------------------------------------------------------------------
(* What the book should be: a function of the chain alone. *)

TxsAt(chain) == UNION {{<<h, i>> : i \in DOMAIN BlockTxs[chain[h]]} : h \in DOMAIN chain}
TxAt(chain, x) == BlockTxs[chain[x[1]]][x[2]]
AdAt(chain, a) == TxAt(chain, a).ads[a[3]]
Later(x, y) == x[1] > y[1] \/ (x[1] = y[1] /\ x[2] > y[2])

(* The advertisements that count, by height, place of the tx and place in it. *)
AdsIn(chain) ==
    LET Counts(x, j) == Admitted(TxAt(chain, x).ads[j], RefsAfter(SubSeq(chain, 1, x[1] - 1)))
    IN  UNION {{<<x[1], x[2], j>> : j \in {k \in DOMAIN TxAt(chain, x).ads : Counts(x, k)}} :
                 x \in TxsAt(chain)}

(* The offers of the chain: advertised, not advertised anew later, and the backing
   outpoint not spent by a later tx. *)
BookOf(chain) ==
    LET Replaced(a) == \E c \in AdsIn(chain) :
                          /\ AdAt(chain, c).id = AdAt(chain, a).id
                          /\ Later(c, a) \/ (c[1] = a[1] /\ c[2] = a[2] /\ c[3] > a[3])
        Spent(a) == \E x \in TxsAt(chain) :
                       Later(x, a) /\ AdAt(chain, a).id \in TxAt(chain, x).spends
    IN  {<<AdAt(chain, a).id, OrderOf(AdAt(chain, a))>> :
            a \in {c \in AdsIn(chain) : ~Replaced(c) /\ ~Spent(c)}}

OrderIds == {k[2] : k \in {x \in DOMAIN swTable : x[1] = "order"}}
OpenOrders ==
    {<<id, swTable[OrderKey(id)]>> :
        id \in {i \in OrderIds : swTable[OrderKey(i)].status = "open"}}
=============================================================================
