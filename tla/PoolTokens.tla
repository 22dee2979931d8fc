----------------------------- MODULE PoolTokens -----------------------------
(***************************************************************************)
(* The unconfirmed token balances and swap orders kept beside the mempool  *)
(* (server/mempool_glyph.py), the subscriptions of sessions to them        *)
(* (server/glyph_subscriptions.py), and the push of balances at the end of *)
(* a refresh (server/mempool.py).                                          *)
(*                                                                         *)
(* A tx is indexed once, when it is accepted, from its outputs and from    *)
(* the rows its inputs have in the DB then; a block may be advanced or     *)
(* undone at every await of the refresh, and between two pushes.  The      *)
(* confirmed balance is GlyphIndex's; how a refresh agrees with the daemon *)
(* on its height is MempoolSync's.  touched_refs and touched_scripthashes, *)
(* which only a REST request drains, are left out.                         *)
(***************************************************************************)
EXTENDS Integers, FiniteSets, FiniteSetsExt, Sequences, SequencesExt, Functions, Folds

CONSTANTS
    PoolTxs,        \* every tx
    Outs,           \* tx -> its outputs: owner's base hashX, refs, value, whether it carries
                    \* the envelope of a dMint reveal or a WAVE claim
    Ins,            \* tx -> the outpoints it spends
    Ads,            \* tx -> the swap orders it advertises: id, pair and maker
    FirstBlock,     \* txs confirmed at first
    Sessions,       \* session ids
    SubKeys,        \* what they subscribe to, as <<type, key>>
    MaxSubs,        \* max_subs_per_client
    MaxBlocks,      \* bound: blocks
    MaxUnblocked    \* bound: blocks undone

(* Txs that may stand in one chain or mempool. *)
Consistent(S) ==
    \A t \in S : \A o \in Ins[t] : o[1] \in S /\ \A u \in S : o \in Ins[u] => u = t
ConsistentSets == {S \in SUBSET PoolTxs : Consistent(S)}

(* A tx names the outputs it spends by the hashes of other txs. *)
ASSUME PoolAssumption ==
    /\ IsFiniteSet(PoolTxs) /\ FirstBlock \in ConsistentSets
    /\ \A t \in PoolTxs :
          /\ Len(Outs[t]) \in Nat /\ DOMAIN Outs[t] = 1..Len(Outs[t])
          /\ \A n \in DOMAIN Outs[t] : Outs[t][n].value \in Nat
          /\ Ins[t] \subseteq UNION {{u} \X DOMAIN Outs[u] : u \in PoolTxs \ {t}}
          /\ Len(Ads[t]) \in Nat /\ DOMAIN Ads[t] = 1..Len(Ads[t])
    /\ \A key \in SubKeys : key = <<key[1], key[2]>>
    /\ MaxSubs \in Nat \ {0} /\ MaxBlocks \in Nat /\ MaxUnblocked \in Nat

VARIABLES
    chainTxs,       \* the blocks, each the set of its txs
    unblocked,      \* blocks undone so far (bound)
    (* the refresh *)
    poolTxs,        \* MemPool.txs
    step,           \* "idle", or what the refresh does next
    hashes,         \* the daemon's mempool, as listed
    prevouts,       \* the prevouts found in the DB
    toTell,         \* pairs still to be pushed
    (* MempoolGlyphIndex *)
    glyph_txs,      \* tx -> its movements
    glyph_by,       \* pair of a hashX and a ref -> txs: by_scripthash and by_ref in one
    touched_balance,
    book,           \* the orders, and the ids by tx, by pair and by maker
    (* GlyphSubscriptionManager *)
    subs,           \* the maps of every type: <<type, key>> -> sessions
    session_subs,   \* session -> what it subscribes to
    toldBalance,    \* <<session, key>> -> the balance last pushed
    (* history: what only the property looks at *)
    blind,          \* tx in the pool -> pairs it moves that its indexing could not see
    doubled,        \* order ids that the pool's txs have advertised twice
    unheard         \* pairs moved by a block while no tx of it was in the index

chainPart == <<chainTxs, unblocked>>
indexPart == <<glyph_txs, glyph_by, touched_balance, book>>
subsPart == <<subs, session_subs, toldBalance>>
pastPart == <<blind, doubled, unheard>>
poolVars == <<chainPart, poolTxs, step, hashes, prevouts, toTell, indexPart, subsPart, pastPart>>

-----------------------------------------------------------------------------
(* Transactions *)

Confirmed == UNION Range(chainTxs)
AllOuts == UNION {{t} \X DOMAIN Outs[t] : t \in PoolTxs}
Unspent(S) == {o \in UNION {{t} \X DOMAIN Outs[t] : t \in S} : \A u \in S : o \notin Ins[u]}
Output(o) == Outs[o[1]][o[2]]

BalanceOf(S, pair) ==
    SumFunction([o \in {o \in Unspent(S) : Output(o).owner = pair[1] /\ pair[2] \in Output(o).refs} |->
                    Output(o).value])
confirmed_balance(pair) == BalanceOf(Confirmed, pair)

_is_known_token(ref) == \E t \in Confirmed : \E n \in DOMAIN Outs[t] : ref \in Outs[t][n].refs
Known(refs) == {r \in refs : _is_known_token(r)}
PairsOf(o, refs) == {<<Output(o).owner, r>> : r \in refs}

(* dict.update, and of a map of sets: a key whose set has become empty goes. *)
Updated(map, new) ==
    [key \in DOMAIN map \cup DOMAIN new |-> IF key \in DOMAIN new THEN new[key] ELSE map[key]]
Of(map, key) == IF key \in DOMAIN map THEN map[key] ELSE {}
Joined(map, key, member) == Updated(map, [k \in {key} |-> Of(map, key) \cup {member}])
Left(map, key, member) ==
    IF key \notin DOMAIN map THEN map
    ELSE IF map[key] \subseteq {member} THEN Restrict(map, DOMAIN map \ {key})
    ELSE [map EXCEPT ![key] = @ \ {member}]

-----------------------------------------------------------------------------
(* MempoolGlyphIndex *)

_has_glyph_or_swap_content(t) == Ads[t] # << >> \/ \E n \in DOMAIN Outs[t] : Outs[t][n].refs # {}

(* _process_glyph_memtx: credits for outputs of known tokens, debits for the inputs that have
   a row of refs in the DB. *)
Visible(t) == {n \in DOMAIN Outs[t] : ~Outs[t][n].hidden}
Movements(t) ==
    LET outs == {<<t, n>> : n \in Visible(t)}
        spent == Ins[t] \cap Unspent(Confirmed)
        move(o, sign) == {[owner |-> Output(o).owner, ref |-> r, delta |-> sign * Output(o).value, of |-> o, by |-> t] :
                            r \in Known(Output(o).refs)}
    IN IF ~_has_glyph_or_swap_content(t) THEN {}
       ELSE (UNION {move(o, 1) : o \in outs}) \cup (UNION {move(o, -1) : o \in spent})
Pair(m) == <<m.owner, m.ref>>
Moved(t) == {Pair(m) : m \in glyph_txs[t]}

EmptyBook == [orders |-> << >>, byTx |-> << >>, byPair |-> << >>, byMaker |-> << >>]

(* _process_swap_memtx, one advertisement. *)
Advertised(b, t, ad) ==
    [orders |-> Updated(b.orders, [id \in {ad.id} |-> [tx |-> t, pair |-> ad.pair, maker |-> ad.maker]]),
     byTx |-> Joined(b.byTx, t, ad.id),
     byPair |-> Joined(b.byPair, ad.pair, ad.id),
     byMaker |-> Joined(b.byMaker, ad.maker, ad.id)]
WithAds(b, t) == FoldLeft(LAMBDA c, ad : Advertised(c, t, ad), b, Ads[t])

(* The swap part of remove_tx: every order that the tx has created. *)
Dropped(b, id) ==
    IF id \notin DOMAIN b.orders THEN b
    ELSE [b EXCEPT !.orders = Restrict(@, DOMAIN @ \ {id}),
                   !.byPair = Left(@, b.orders[id].pair, id),
                   !.byMaker = Left(@, b.orders[id].maker, id)]
Unadvertised(b, t) ==
    LET rest == FoldLeft(Dropped, b, SetToSeq(Of(b.byTx, t)))
    IN [rest EXCEPT !.byTx = Restrict(@, DOMAIN @ \ {t})]

(* process_mempool_tx and _record_movements, of txs in this order. *)
IndexTxs(order) ==
    LET new == {t \in Range(order) : Movements(t) # {}}
        pairs == [t \in new |-> {Pair(m) : m \in Movements(t)}]
    IN /\ glyph_txs' = Updated(glyph_txs, [t \in new |-> Movements(t)])
       /\ glyph_by' = [p \in DOMAIN glyph_by \cup UNION Range(pairs) |->
                          Of(glyph_by, p) \cup {t \in new : p \in pairs[t]}]
       /\ touched_balance' = touched_balance \cup UNION Range(pairs)
       /\ book' = FoldLeft(WithAds, book, order)

(* Mutant: a tx that goes touches no balance. *)
remove_txs_silently(gone) ==
    LET indexed == gone \cap DOMAIN glyph_txs
        left == [p \in DOMAIN glyph_by |-> glyph_by[p] \ indexed]
    IN /\ glyph_txs' = Restrict(glyph_txs, DOMAIN glyph_txs \ indexed)
       /\ glyph_by' = Restrict(left, {p \in DOMAIN left : left[p] # {}})
       /\ book' = FoldLeft(Unadvertised, book, SetToSeq(gone))
       /\ UNCHANGED touched_balance

(* remove_tx, of each. *)
remove_txs(gone) ==
    LET indexed == gone \cap DOMAIN glyph_txs
        left == [p \in DOMAIN glyph_by |-> glyph_by[p] \ indexed]
    IN /\ glyph_txs' = Restrict(glyph_txs, DOMAIN glyph_txs \ indexed)
       /\ glyph_by' = Restrict(left, {p \in DOMAIN left : left[p] # {}})
       /\ touched_balance' = touched_balance \cup UNION {Moved(t) : t \in indexed}
       /\ book' = FoldLeft(Unadvertised, book, SetToSeq(gone))

get_unconfirmed_glyph_balance(pair) ==
    SumFunction([m \in {m \in UNION {glyph_txs[t] : t \in Of(glyph_by, pair)} : Pair(m) = pair} |-> m.delta])

-----------------------------------------------------------------------------
(* MemPool._refresh_hashes *)

(* The daemon's list, and the txs that have disappeared from it. *)
Refresh(list) ==
    /\ step = "idle"
    /\ list \cap Confirmed = {} /\ list \cup Confirmed \in ConsistentSets
    /\ hashes' = list
    /\ poolTxs' = poolTxs \cap list
    /\ remove_txs(poolTxs \ list)
    /\ blind' = Restrict(blind, DOMAIN blind \cap list)
    /\ step' = IF list \subseteq poolTxs THEN "notify" ELSE "fetch"
    /\ UNCHANGED <<chainPart, prevouts, toTell, subsPart, doubled, unheard>>

lookup_utxos ==
    /\ step = "fetch"
    /\ prevouts' = {o \in UNION {Ins[t] : t \in hashes \ poolTxs} : o[1] \notin hashes} \cap Unspent(Confirmed)
    /\ step' = "accept"
    /\ UNCHANGED <<chainPart, poolTxs, hashes, toTell, indexPart, subsPart, pastPart>>

(* Txs all of whose inputs have been found, or are outputs of txs accepted before. *)
Acceptable ==
    LET accepted[k \in 0..Cardinality(hashes)] ==
            IF k = 0 THEN poolTxs
            ELSE {t \in hashes : t \in accepted[k - 1]
                                 \/ \A o \in Ins[t] : o \in prevouts \/ o[1] \in accepted[k - 1]}
    IN {t \in hashes \ poolTxs : t \in accepted[Cardinality(hashes)]}

(* Pairs that a tx moves unseen: an input that the DB has no row of, an output of a token it does
   not know, an output left out on purpose; every input if no output has a ref or an OP_RETURN. *)
UnseenIn(t, o) == IF _has_glyph_or_swap_content(t) /\ o \in Unspent(Confirmed) THEN {} ELSE Output(o).refs
UnseenOut(t, n) == IF Outs[t][n].hidden THEN Outs[t][n].refs ELSE Outs[t][n].refs \ Known(Outs[t][n].refs)
Unseen(t) == (UNION {PairsOf(o, UnseenIn(t, o)) : o \in Ins[t]})
             \cup (UNION {PairsOf(<<t, n>>, UnseenOut(t, n)) : n \in DOMAIN Outs[t]})

Listed(S) == UNION {{t} \X Range(Ads[t]) : t \in S}

_accept_transactions ==
    /\ step = "accept"
    /\ \E order \in SetToSeqs(Acceptable) : IndexTxs(order)
    /\ poolTxs' = poolTxs \cup Acceptable
    /\ prevouts' = {} /\ step' = "notify"
    /\ blind' = Updated(blind, [t \in Acceptable |-> Unseen(t)])
    /\ doubled' = doubled \cup {a[2].id : a \in {a \in Listed(poolTxs') :
                                   \E b \in Listed(poolTxs') : b # a /\ b[2].id = a[2].id}}
    /\ UNCHANGED <<chainPart, hashes, toTell, subsPart, unheard>>

BalanceKeys == {k \in DOMAIN subs : k[1] = "balance"}

(* _dispatch_glyph_balance, once on_mempool is through: the pairs are drained in any case. *)
_dispatch_glyph_balance ==
    /\ step = "notify"
    /\ touched_balance' = {}
    /\ toTell' = IF BalanceKeys = {} THEN {} ELSE touched_balance
    /\ step' = IF toTell' = {} THEN "idle" ELSE "push"
    /\ hashes' = {}
    /\ unheard' = unheard \ touched_balance
    /\ UNCHANGED <<chainPart, poolTxs, prevouts, glyph_txs, glyph_by, book, subsPart, blind, doubled>>

notify_balance_change(pair) ==
    /\ step = "push" /\ pair \in toTell
    /\ LET key == <<"balance", pair>>
       IN toldBalance' = Updated(toldBalance, [told \in {<<s, key>> : s \in Of(subs, key)} |->
                             confirmed_balance(pair) + get_unconfirmed_glyph_balance(pair)])
    /\ toTell' = toTell \ {pair}
    /\ step' = IF toTell' = {} THEN "idle" ELSE "push"
    /\ UNCHANGED <<chainPart, poolTxs, hashes, prevouts, indexPart, subs, session_subs, pastPart>>

-----------------------------------------------------------------------------
(* GlyphSubscriptionManager *)

_check_can_subscribe(s, key) == key \in session_subs[s] \/ Cardinality(session_subs[s]) < MaxSubs

subscribed(s, key) ==
    /\ subs' = Joined(subs, key, s)
    /\ session_subs' = [session_subs EXCEPT ![s] = @ \cup {key}]

(* A request that is refused changes nothing. *)
Subscribe(s, key) ==
    /\ _check_can_subscribe(s, key)
    /\ subscribed(s, key)
    /\ UNCHANGED <<chainPart, poolTxs, step, hashes, prevouts, toTell, indexPart, toldBalance, pastPart>>

(* Some types only: a transfer, say, is left with the session. *)
Unsubscribe(s, key) ==
    /\ key[1] \in {"balance", "token", "orderbook"} /\ s \in Of(subs, key)
    /\ subs' = Left(subs, key, s)
    /\ session_subs' = [session_subs EXCEPT ![s] = @ \ {key}]
    /\ toldBalance' = Restrict(toldBalance, DOMAIN toldBalance \ {<<s, key>>})
    /\ UNCHANGED <<chainPart, poolTxs, step, hashes, prevouts, toTell, indexPart, pastPart>>

unsubscribe_session(s) ==
    /\ session_subs[s] # {}
    /\ subs' = FoldLeft(LAMBDA map, key : Left(map, key, s), subs, SetToSeq(session_subs[s]))
    /\ session_subs' = [session_subs EXCEPT ![s] = {}]
    /\ toldBalance' = Restrict(toldBalance, {told \in DOMAIN toldBalance : told[1] # s})
    /\ UNCHANGED <<chainPart, poolTxs, step, hashes, prevouts, toTell, indexPart, pastPart>>

-----------------------------------------------------------------------------
(* The block processor: a block flushed, or undone. *)

AllPairs == UNION {PairsOf(o, Output(o).refs) : o \in AllOuts}
Changed(S, U) == {p \in AllPairs : BalanceOf(S, p) # BalanceOf(U, p)}

Block(txs) ==
    /\ Len(chainTxs) < MaxBlocks
    /\ txs # {} /\ txs \cap Confirmed = {} /\ txs \cup Confirmed \in ConsistentSets
    /\ chainTxs' = Append(chainTxs, txs)
    /\ unheard' = unheard \cup (Changed(Confirmed, Confirmed \cup txs)
                                  \ UNION {Moved(t) : t \in txs \cap DOMAIN glyph_txs})
    /\ UNCHANGED <<unblocked, poolTxs, step, hashes, prevouts, toTell, indexPart, subsPart, blind, doubled>>

Unblock ==
    /\ Len(chainTxs) > 1 /\ unblocked < MaxUnblocked
    /\ unblocked' = unblocked + 1
    /\ chainTxs' = Front(chainTxs)
    /\ unheard' = unheard \cup Changed(Confirmed, UNION Range(Front(chainTxs)))
    /\ UNCHANGED <<poolTxs, step, hashes, prevouts, toTell, indexPart, subsPart, blind, doubled>>

-----------------------------------------------------------------------------
PoolInit ==
    /\ chainTxs = <<FirstBlock>> /\ unblocked = 0
    /\ poolTxs = {} /\ step = "idle" /\ hashes = {} /\ prevouts = {} /\ toTell = {}
    /\ glyph_txs = << >> /\ glyph_by = << >> /\ touched_balance = {} /\ book = EmptyBook
    /\ subs = << >> /\ session_subs = [s \in Sessions |-> {}] /\ toldBalance = << >>
    /\ blind = << >> /\ doubled = {} /\ unheard = {}

PoolNext ==
    \/ \E list \in SUBSET PoolTxs : Refresh(list) \/ Block(list)
    \/ lookup_utxos \/ _accept_transactions \/ _dispatch_glyph_balance
    \/ \E pair \in toTell : notify_balance_change(pair)
    \/ \E s \in Sessions : \/ \E key \in SubKeys : Subscribe(s, key) \/ Unsubscribe(s, key)
                           \/ unsubscribe_session(s)
    \/ Unblock

-----------------------------------------------------------------------------
(* The mempool has been refreshed since the last block. *)
Refreshed == step = "idle" /\ poolTxs \cap Confirmed = {} /\ poolTxs \cup Confirmed \in ConsistentSets

(* A confirmed balance and the unconfirmed one make the balance that the chain and the mempool
   together leave an address, unless a tx of the mempool moves it unseen: a chain of unconfirmed
   transfers, a melt, a token not confirmed yet (mempool_glyph.py, get_unconfirmed_glyph_balance). *)
PoolBalances ==
    Refreshed => \A pair \in AllPairs :
        \/ \E t \in poolTxs : pair \in blind[t]
        \/ confirmed_balance(pair) + get_unconfirmed_glyph_balance(pair) = BalanceOf(poolTxs \cup Confirmed, pair)

(* The orders listed by id, by pair, by maker and by tx are those the mempool's txs advertise,
   unless the same one was advertised twice (mempool_glyph.py, _process_swap_memtx,
   remove_tx). *)
PoolOrders ==
    LET single == {l \in Listed(poolTxs) : l[2].id \notin doubled}
        ids(map) == {e \in UNION {{k} \X map[k] : k \in DOMAIN map} : e[2] \notin doubled}
    IN /\ DOMAIN book.orders \ doubled = {l[2].id : l \in single}
       /\ \A l \in single : book.orders[l[2].id] = [tx |-> l[1], pair |-> l[2].pair, maker |-> l[2].maker]
       /\ ids(book.byPair) = {<<l[2].pair, l[2].id>> : l \in single}
       /\ ids(book.byMaker) = {<<l[2].maker, l[2].id>> : l \in single}
       /\ ids(book.byTx) = {<<l[1], l[2].id>> : l \in single}

(* A subscriber of a balance was last told what it would be answered now, unless a block has
   moved it of which no tx was indexed (mempool.py, _dispatch_glyph_balance). *)
ToldBalances ==
    Refreshed => \A told \in DOMAIN toldBalance :
        LET pair == told[2][2]
        IN pair \in unheard
           \/ toldBalance[told] = confirmed_balance(pair) + get_unconfirmed_glyph_balance(pair)

(* The maps by key and the list by session hold the same subscriptions, none once a session has
   gone, never more than the cap (glyph_subscriptions.py). *)
SubscriptionsAgree ==
    /\ \A s \in Sessions : session_subs[s] = {key \in DOMAIN subs : s \in subs[key]}
    /\ \A key \in DOMAIN subs : subs[key] # {}
    /\ \A s \in Sessions : Cardinality(session_subs[s]) <= MaxSubs

(* Wallets and traders see the mempool as it is: PoolBalances, PoolOrders, ToldBalances and
   SubscriptionsAgree. *)
PoolViewsFollow == PoolBalances /\ PoolOrders /\ ToldBalances /\ SubscriptionsAgree
=============================================================================
