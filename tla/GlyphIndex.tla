----------------------------- MODULE GlyphIndex -----------------------------
(***************************************************************************)
(* The token index (server/glyph_index.py): one record per ref, listed by  *)
(* type, name, protocol and recency; balances per owner and holders per    *)
(* ref; events; metadata blobs; the contracts of mineable tokens.          *)
(*                                                                         *)
(* Changes stay in caches, each with the height it belongs to, until the   *)
(* flush, which records for reorgs what the written keys held (UndoLog).   *)
(* Numbers that only describe a token (difficulty, decimals, icons,        *)
(* timelocks, attributes) are left out of its record.                      *)
(***************************************************************************)
EXTENDS TxFeed

CONSTANTS
    Denied,    \* env.dmint_denylist
    MaxSupply  \* DMINT_MAX_TOTAL_SUPPLY

VARIABLES
    glCache,   \* what is not flushed, see NoGlyphs
    glTable,   \* the rows in the UTXO DB, each key tagged with its prefix
    glUndo,    \* the undo records in the UTXO DB
    glPruned,  \* _last_undo_pruned
    glStats,   \* GSTAT: type -> number of tokens counted
    (* history: what only the properties look at *)
    glUndone,  \* number of tokens counted and then removed by backup
    glBlurred, \* the <<ref>> and <<owner, ref>> whose rows depend on where flushes fell
    glAstray   \* [lost: heights whose undo record was replaced, hit: one was needed]

glVars == <<glCache, glTable, glUndo, glPruned, glStats, glUndone, glBlurred, glAstray>>

Types == {"FT", "NFT", "DAT", "DMINT", "WAVE", "CONT", "AUTH", "unknown"}

(* The caches after a flush: token_cache, token_height; contract_to_token_cache and
   its heights; metadata_cache; history_cache; balance_cache; balance_deletes; the
   <<height, balance key>> for which update_balance recorded undo; owner_cache;
   key_reveal_cache with its heights. *)
NoGlyphs == [tokens |-> << >>, tokenHeight |-> << >>, contracts |-> << >>,
             contractHeight |-> << >>, blobs |-> << >>, events |-> << >>,
             balances |-> << >>, deletes |-> {}, moved |-> {}, owners |-> {},
             reveals |-> << >>]

get_token(w, t, ref) ==
    IF ref \in DOMAIN w.tokens THEN {w.tokens[ref]} ELSE Get(t, <<"GT", ref>>)

_is_known_token(w, t, ref) == get_token(w, t, ref) # {}

PutToken(w, ref, token, h) ==
    [w EXCEPT !.tokens = (ref :> token) @@ @, !.tokenHeight = (ref :> h) @@ @]

(* history_cache, keyed as in the DB: the last event of a tx for a ref counts. *)
AddEvent(w, ref, h, i, event) == [w EXCEPT !.events = (<<ref, h, i>> :> event) @@ @]

-----------------------------------------------------------------------------
(* process_tx, phase 1: every ref pushed by an output. *)

(* What a ref gets before any reveal; initial is current_supply without what was
   mined, live is {} while liveness is not tracked. *)
Bare(kind, h) ==
    [protos |-> {IF kind = "nft" THEN "NFT" ELSE "FT"}, version |-> 1,
     type |-> IF kind = "nft" THEN "NFT" ELSE "FT", name |-> "none", meta |-> "none",
     deployed |-> h, total |-> 0, initial |-> 0, mined |-> 0, mints |-> 0, reward |-> 0,
     spent |-> FALSE, live |-> {}, companion |-> FALSE, parent |-> "none"]

Registered(w, t, tx, h, i) ==
    LET pushed == PushedRefs(tx)
        First(n) == \A m \in 1 .. n - 1 : pushed[m].ref # pushed[n].ref
        new == {n \in DOMAIN pushed : First(n) /\ ~_is_known_token(w, t, pushed[n].ref)}
    IN  FoldSet(LAMBDA n, v : AddEvent(PutToken(v, pushed[n].ref, Bare(pushed[n].kind, h), h),
                                       pushed[n].ref, h, i, "deploy"),
                w, new)

(* known_ft_refs_seen: known when met, so a ref of two outputs always is. *)
KnownFtSeen(w, t, tx) ==
    LET pushed == PushedRefs(tx)
    IN  {pushed[n].ref : n \in {k \in DOMAIN pushed :
            /\ pushed[k].kind = "ft"
            /\ \/ _is_known_token(w, t, pushed[k].ref)
               \/ \E m \in 1 .. k - 1 : pushed[m].ref = pushed[k].ref}}

-----------------------------------------------------------------------------
(* process_tx, phase 2: a reveal, [p, kind, version, name, meta, prev, total,
   premine, reward, ...]: the protocols, the type string, ..., the ref of the
   input's outpoint, what the metadata says of supply. *)

(* extract_token_info: old metadata says its protocol in the type string. *)
ProtosOf(env) ==
    IF env.p # {} THEN env.p
    ELSE CASE env.kind = "ft" -> {"FT"} [] env.kind = "nft" -> {"NFT"}
           [] env.kind = "dat" -> {"DAT"} [] OTHER -> {}

get_token_type_id(protos, kind) ==
    CASE "FT" \in protos -> IF "DMINT" \in protos THEN "DMINT" ELSE "FT"
      [] "FT" \notin protos /\ "NFT" \in protos ->
            IF "WAVE" \in protos THEN "WAVE"
            ELSE IF "CONT" \in protos THEN "CONT"
            ELSE IF "AUTH" \in protos THEN "AUTH"
            ELSE IF kind = "container" THEN "CONT" ELSE "NFT"
      [] protos \cap {"FT", "NFT"} = {} /\ "DAT" \in protos -> "DAT"
      [] OTHER -> "unknown"

(* The first singleton, or the first normal ref, that the outputs push. *)
_find_output_ref(tx, env) ==
    LET OfKind(k) == SelectSeq(PushedRefs(tx), LAMBDA r : r.kind = k)
        found == (IF env.p \cap {"NFT", "WAVE"} # {} THEN OfKind("nft") ELSE << >>)
                 \o (IF "FT" \in env.p THEN OfKind("ft") ELSE << >>)
    IN  IF found = << >> THEN {} ELSE {Head(found).ref}

_find_sibling_singletons(tx, ref) ==
    {r.ref : r \in {x \in Range(PushedRefs(tx)) :
                      x.kind = "nft" /\ x.ref # ref /\ MintOf[x.ref] = MintOf[ref]}}

(* _parse_deploy_contract_state: the first contract's state, and the supply that
   all of them can mint if the metadata named none. *)
ContractTerms(token, tx) ==
    LET states == SelectSeq([j \in DOMAIN tx.outs |-> tx.outs[j].contract],
                            LAMBDA c : c # {})
        state == CHOOSE c \in Head(states) : TRUE
        reward == IF state.reward > 0 THEN state.reward ELSE token.reward
        supply == Len(states) * reward * state.max
    IN  IF states = << >> THEN token
        ELSE [token EXCEPT !.reward = reward,
                           !.total = IF @ = 0 /\ supply <= MaxSupply THEN supply ELSE @]

InitialSupply(tx) ==
    LET carriers == SelectSeq(tx.outs, LAMBDA o : \E r \in Range(o.refs) : r.kind = "ft")
    IN  IF carriers = << >> THEN 0 ELSE Head(carriers).value

RevealedToken(tx, ref, env, h) ==
    LET protos == ProtosOf(env)
        base == [Bare("nft", h) EXCEPT !.protos = protos, !.version = env.version,
                    !.type = get_token_type_id(protos, env.kind),
                    !.name = env.name, !.meta = env.meta]
    IN  CASE {"FT", "DMINT"} \subseteq protos ->
                ContractTerms([base EXCEPT !.total = env.total, !.initial = env.premine,
                                  !.reward = env.reward,
                                  !.live = {Cardinality(_find_sibling_singletons(tx, ref))}],
                              tx)
          [] "FT" \in protos /\ "DMINT" \notin protos ->
                [base EXCEPT !.total = InitialSupply(tx), !.initial = InitialSupply(tx)]
          [] OTHER -> base

(* A sibling without a name or metadata of its own is plumbing of the token. *)
_mark_companion_singletons(w, t, tx, ref, h) ==
    FoldSet(LAMBDA sib, v :
                LET token == CHOOSE x \in get_token(v, t, sib) : TRUE
                IN  IF token.companion \/ token.name # "none" \/ token.meta # "none" THEN v
                    ELSE PutToken(v, sib, [token EXCEPT !.companion = TRUE, !.parent = ref], h),
            w, {s \in _find_sibling_singletons(tx, ref) : get_token(w, t, s) # {}})

_index_token_reveal(w, t, tx, h, i, ref, env) ==
    LET token == RevealedToken(tx, ref, env, h)
        mining == IF {"FT", "DMINT"} \subseteq token.protos
                  THEN _find_sibling_singletons(tx, ref) ELSE {}
        staged == [PutToken(w, ref, token, h) EXCEPT
                      !.blobs = (env.meta :> h) @@ @,
                      !.contracts = [c \in mining |-> ref] @@ @,
                      !.contractHeight = [c \in mining |-> h] @@ @]
    IN  AddEvent(_mark_companion_singletons(staged, t, tx, ref, h), ref, h, i, "deploy")

(* Inputs first; the outputs' envelopes count when no input has one, and need a ref
   in the outputs. *)
Revealed(w, t, tx, h, i) ==
    LET fromInputs == FoldLeft(LAMBDA v, env :
            LET found == _find_output_ref(tx, env)
            IN  _index_token_reveal(v, t, tx, h, i,
                    IF found = {} THEN env.prev ELSE CHOOSE r \in found : TRUE, env),
            w, tx.inEnvs)
    IN  IF tx.inEnvs # << >> THEN fromInputs
        ELSE FoldLeft(LAMBDA v, env :
                IF _find_output_ref(tx, env) = {} THEN v
                ELSE _index_token_reveal(v, t, tx, h, i,
                        CHOOSE r \in _find_output_ref(tx, env) : TRUE, env),
                w, tx.outEnvs)

-----------------------------------------------------------------------------
(* process_tx, phases 3 and 4 *)

is_fully_mined(token) == token.total > 0 /\ token.mined >= token.total

(* Each output with a singleton and the token's ref is one contract that mined. *)
_process_mint(w, t, tx, h, i, ref) ==
    LET mining == SelectSeq(tx.outs, LAMBDA o : Singletons(o) # {} /\ Carries(o, ref, "ft"))
        old == CHOOSE x \in get_token(w, t, ref) : TRUE
        states == SelectSeq(mining, LAMBDA o : o.contract # {})
        stated == IF states = << >> THEN 0
                  ELSE (CHOOSE s \in Head(states).contract : TRUE).reward
        reward == IF stated > 0 THEN stated ELSE old.reward
        minted == Len(mining) * reward
        mined == [old EXCEPT !.reward = reward, !.mints = @ + 1, !.mined = @ + minted]
        token == [mined EXCEPT !.spent = @ \/ is_fully_mined(mined)]
    IN  IF "DMINT" \notin old.protos \/ minted <= 0 THEN w
        ELSE LET v == PutToken(w, ref, token, h)
             IN  IF ref \in Denied THEN v ELSE AddEvent(v, ref, h, i, "mint")

(* A contract's singleton is gone: one live contract less; the token's end if no
   contract is left and supply remains. *)
_process_contract_burn(w, t, h, i, singleton) ==
    LET flushed == Get(t, <<"GC", singleton>>)
        owner == IF flushed # {} THEN flushed ELSE Get(w.contracts, singleton)
        ref == CHOOSE r \in owner : TRUE
        old == CHOOSE x \in get_token(w, t, ref) : TRUE
        live == CHOOSE n \in old.live : TRUE
        v == PutToken(w, ref, [old EXCEPT !.live = {live - 1}], h)
    IN  IF owner = {} \/ get_token(w, t, ref) = {} THEN w
        ELSE IF old.live = {} \/ live <= 0 THEN w
        ELSE IF live = 1 /\ ~is_fully_mined(old) THEN AddEvent(v, ref, h, i, "burn") ELSE v

Destroyed(tx) ==
    SpentSingletons(tx)
        \ UNION {Singletons(o) : o \in {x \in Range(tx.outs) : ~x.dead}}

GlyphProcessTx(w, t, tx, h, i) ==
    LET seen == KnownFtSeen(w, t, tx)
        revealed == Revealed(Registered(w, t, tx, h, i), t, tx, h, i)
        minted == FoldSet(LAMBDA ref, v : _process_mint(v, t, tx, h, i, ref), revealed, seen)
    IN  FoldSet(LAMBDA c, v : _process_contract_burn(v, t, h, i, c), minted, Destroyed(tx))

-----------------------------------------------------------------------------
(* process_balance_changes: what the inputs carried leaves its owner, what the
   outputs carry reaches theirs.  The owner is the hashX of the base script. *)

(* Mutant: the DB's value comes back after the balance went to zero. *)
update_balance_rereads(w, t, h, key, delta) ==
    LET now == IF key \in DOMAIN w.balances THEN w.balances[key]
               ELSE IF key \in DOMAIN t THEN t[key] ELSE 0
    IN  IF now + delta > 0
        THEN [w EXCEPT !.balances = (key :> now + delta) @@ @, !.deletes = @ \ {key},
                       !.moved = @ \cup {<<h, key>>}]
        ELSE [w EXCEPT !.balances = Restrict(@, DOMAIN @ \ {key}), !.deletes = @ \cup {key},
                       !.moved = @ \cup {<<h, key>>}]

update_balance(w, t, h, key, delta) ==
    LET now == IF key \in DOMAIN w.balances THEN w.balances[key]
               ELSE IF key \notin w.deletes /\ key \in DOMAIN t THEN t[key] ELSE 0
    IN  IF now + delta > 0
        THEN [w EXCEPT !.balances = (key :> now + delta) @@ @, !.deletes = @ \ {key},
                       !.moved = @ \cup {<<h, key>>}]
        ELSE [w EXCEPT !.balances = Restrict(@, DOMAIN @ \ {key}), !.deletes = @ \cup {key},
                       !.moved = @ \cup {<<h, key>>}]

Moved(w, t, h, o, sign) ==
    FoldSet(LAMBDA ref, v : update_balance(v, t, h, <<"GB", o.owner, ref>>, sign * o.value),
            w, {r \in RefsOf(o) : _is_known_token(w, t, r)})

process_balance_changes(w, t, tx, h) ==
    LET debited == FoldSet(LAMBDA op, v : Moved(v, t, h, Output[op], -1), w, tx.spends)
        credited == FoldLeft(LAMBDA v, o : Moved(v, t, h, o, 1), debited, tx.outs)
    IN  [credited EXCEPT !.owners = @ \cup {o.owner : o \in {x \in Range(tx.outs) : x.refs # << >>}}]

-----------------------------------------------------------------------------
(* flush *)

HolderKey(key) == <<"GR", key[3], key[2]>>

(* _discovery_rows: a function of the record alone. *)
_discovery_rows(ref, token) ==
    LET facets == {<<"GP", p, token.deployed, ref>> : p \in token.protos}
        byType == {<<"GZ", token.type, token.deployed, ref>>}
        recent == {<<"GQ", token.deployed, ref>> : x \in {token.type} \ {"unknown"}}
    IN  [k \in IF token.companion THEN facets ELSE facets \cup byType \cup recent |->
            IF k[1] = "GQ" THEN token.type ELSE ""]

TokenRows(ref, token) ==
    (<<"GT", ref>> :> token) @@ (<<"GY", token.type, ref>> :> "")
    @@ _discovery_rows(ref, token)
    @@ [k \in {<<"GN", n, ref>> : n \in {token.name} \ {"none"}} |-> ""]

(* Mutant: only the rows of a token that becomes a companion go. *)
Superseded_kept(t, ref) ==
    UNION {DOMAIN _discovery_rows(ref, x) : x \in {y \in Get(t, <<"GT", ref>>) : y.companion}}

(* The rows by which a rewritten token was listed until now. *)
Superseded(t, ref) == UNION {DOMAIN _discovery_rows(ref, x) : x \in Get(t, <<"GT", ref>>)}

BalanceRows(w) ==
    w.balances @@ [k \in {HolderKey(key) : key \in DOMAIN w.balances} |->
                      w.balances[<<"GB", k[3], k[2]>>]]

FlushedGlyphs(w, t) ==
    LET tokens == UNION {DOMAIN TokenRows(r, w.tokens[r]) : r \in DOMAIN w.tokens}
        Ref(k) == k[Len(k)]
        emptied == w.deletes \cup {HolderKey(k) : k \in w.deletes}
    IN  Written(t,
            [k \in tokens |-> TokenRows(Ref(k), w.tokens[Ref(k)])[k]]
            @@ BalanceRows(w)
            @@ [k \in {<<"GO", o>> : o \in w.owners} |-> ""]
            @@ [k \in {<<"GH">> \o e : e \in DOMAIN w.events} |-> w.events[Tail(k)]]
            @@ [k \in {<<"GM", b>> : b \in DOMAIN w.blobs} |-> ""]
            @@ [k \in {<<"KR", r>> : r \in DOMAIN w.reveals} |-> ""]
            @@ [k \in {<<"GC", c>> : c \in DOMAIN w.contracts} |-> w.contracts[k[2]]],
            emptied \cup UNION {Superseded(t, r) : r \in DOMAIN w.tokens})

(* Mutant: only the rows that are put are recorded, not those they supersede. *)
GlyphKeysAt_puts(w, t, height) ==
    LET At(h) ==
            UNION {DOMAIN TokenRows(r, w.tokens[r]) : r \in {x \in DOMAIN w.tokens : w.tokenHeight[x] = h}}
            \cup UNION {{m[2], HolderKey(m[2])} : m \in {x \in w.moved : x[1] = h}}
            \cup {<<"GH">> \o e : e \in {x \in DOMAIN w.events : x[2] = h}}
            \cup {<<"GC", c>> : c \in {x \in DOMAIN w.contracts : w.contractHeight[x] = h}}
    IN  [h \in Range(w.tokenHeight) \cup {m[1] : m \in w.moved} |-> At(h)]

(* The keys under whose heights undo is recorded.  A balance gone to zero has lost
   its height: its key is recorded under the flushed one. *)
GlyphKeysAt(w, t, height) ==
    LET At(h) ==
            UNION {DOMAIN TokenRows(r, w.tokens[r]) \cup Superseded(t, r) :
                      r \in {x \in DOMAIN w.tokens : w.tokenHeight[x] = h}}
            \cup UNION {{m[2], HolderKey(m[2])} : m \in {x \in w.moved : x[1] = h}}
            \cup (IF h = height THEN w.deletes \cup {HolderKey(k) : k \in w.deletes} ELSE {})
            \cup {<<"GH">> \o e : e \in {x \in DOMAIN w.events : x[2] = h}}
            \cup {<<"GM", b>> : b \in {x \in DOMAIN w.blobs : w.blobs[x] = h}}
            \cup {<<"KR", r>> : r \in {x \in DOMAIN w.reveals : w.reveals[x] = h}}
            \cup {<<"GC", c>> : c \in {x \in DOMAIN w.contracts : w.contractHeight[x] = h}}
        touched == Range(w.tokenHeight) \cup {m[1] : m \in w.moved}
                   \cup {e[2] : e \in DOMAIN w.events} \cup Range(w.blobs)
                   \cup Range(w.reveals) \cup Range(w.contractHeight)
                   \cup (IF w.deletes = {} THEN {} ELSE {height})
    IN  [h \in touched |-> At(h)]

(* _update_stats_delta at the write of a token that the DB does not have, and
   _flush_stats_counter. *)
Counted(stats, w, t) ==
    [type \in Types |-> stats[type] + Cardinality({r \in DOMAIN w.tokens :
        w.tokens[r].type = type /\ <<"GT", r>> \notin DOMAIN t})]

-----------------------------------------------------------------------------
(* The steps *)

(* Rows that a reorg within the window may put back wrongly, because one undo record
   stands for changes at several heights. *)
Mixed(w, old, h) ==
    LET Again(f) == {x \in DOMAIN f : f[x] # h}
        changed == {r \in Again(old.tokenHeight) : w.tokenHeight[r] = h}
    IN  {<<r>> : r \in {x \in DOMAIN MintOf : \E c \in changed : MintOf[x] = MintOf[c]}}
        \cup {Tail(m[2]) : m \in {x \in w.moved : x[1] = h /\ \E y \in old.moved : y[2] = x[2]}}

(* Each tx of a block in turn: the tokens, then the balances. *)
GlyphsAfter(w, t, txs, h) ==
    FoldLeftDomain(LAMBDA v, i :
            Eagerly(Eagerly(v, LAMBDA u : GlyphProcessTx(u, t, txs[i], h, i)),
                    LAMBDA u : process_balance_changes(u, t, txs[i], h)),
        w, txs)

GlyphAdvance(b) ==
    LET w == GlyphsAfter(glCache, glTable, BlockTxs[Last(b)], Len(b))
    IN  /\ glCache' = w
        /\ glBlurred' = glBlurred \cup Mixed(w, glCache, Len(b))
        /\ UNCHANGED <<glTable, glUndo, glPruned, glStats, glUndone, glAstray>>

(* The height is the caller's: a reveal is reported after its block. *)
record_key_reveal(ref, h) ==
    /\ glCache' = [glCache EXCEPT !.reveals = (ref :> h) @@ @]
    /\ UNCHANGED <<glTable, glUndo, glPruned, glStats, glUndone, glBlurred, glAstray>>

GlyphFlush(height, from) ==
    LET to == PruneTo(height, ReorgLimit)
        keysAt == GlyphKeysAt(glCache, glTable, height)
        kept == Pruned(glUndo, glPruned, to)
    IN  /\ glTable' = FlushedGlyphs(glCache, glTable)
        /\ glUndo' = Recorded(kept, glTable, keysAt)
        /\ glPruned' = IF to <= glPruned THEN glPruned ELSE to
        /\ glStats' = Counted(glStats, glCache, glTable)
        /\ glCache' = NoGlyphs
        /\ glBlurred' = glBlurred \cup
               {Tail(k) : k \in {x \in glCache.deletes : <<height, x>> \notin glCache.moved}}
        /\ glAstray' = [glAstray EXCEPT !.lost =
               (@ \cup {h \in DOMAIN keysAt \cap DOMAIN kept : h <= from}) \cap (to + 1 .. height)]
        /\ UNCHANGED glUndone

(* Mutant: the counters forget the undone tokens, like the table. *)
GlyphBackup_uncounts(height) ==
    LET t == Reverted(glTable, glUndo, height)
        gone == {k \in DOMAIN glTable \ DOMAIN t : k[1] = "GT"}
    IN  /\ glTable' = t
        /\ glUndo' = Forgotten(glUndo, height)
        /\ glUndone' = glUndone + Cardinality(gone)
        /\ glStats' = [type \in Types |->
              glStats[type] - Cardinality({k \in gone : glTable[k].type = type})]
        /\ glAstray' = [lost |-> glAstray.lost \ {height},
                        hit |-> glAstray.hit \/ height \in glAstray.lost]
        /\ UNCHANGED <<glCache, glPruned, glBlurred>>

GlyphBackup(height) ==
    LET t == Reverted(glTable, glUndo, height)
        gone == {k \in DOMAIN glTable \ DOMAIN t : k[1] = "GT"}
    IN  /\ glTable' = t
        /\ glUndo' = Forgotten(glUndo, height)
        /\ glUndone' = glUndone + Cardinality(gone)
        /\ glAstray' = [lost |-> glAstray.lost \ {height},
                        hit |-> glAstray.hit \/ height \in glAstray.lost]
        /\ UNCHANGED <<glCache, glPruned, glStats, glBlurred>>

(* __init__, and post_open_init: the blobs of denied tokens are deleted. *)
GlyphRestart ==
    LET scrubbed == {<<"GM", glTable[<<"GT", r>>].meta>> :
                        r \in {d \in Denied : <<"GT", d>> \in DOMAIN glTable}}
    IN  /\ glCache' = NoGlyphs
        /\ glPruned' = -1
        /\ glTable' = Written(glTable, << >>, scrubbed)
        /\ UNCHANGED <<glUndo, glStats, glUndone, glBlurred, glAstray>>

-----------------------------------------------------------------------------
(* What the index should hold: the tokens' rows as a node has them that indexed the
   chain from its first block and never saw a reorg. *)

Resynced(chain) ==
    Eagerly(FoldLeftDomain(LAMBDA v, h :
                    Eagerly(v, LAMBDA u : GlyphsAfter(u, << >>, BlockTxs[chain[h]], h)),
                NoGlyphs, chain),
            LAMBDA w : FlushedGlyphs(w, << >>))

(* A DB that holds the chain, its undo records pruned. *)
GlyphInit(chain) ==
    /\ glCache = NoGlyphs /\ glTable = Resynced(chain) /\ glUndo = << >> /\ glPruned = -1
    /\ glStats = [type \in Types |->
          Cardinality({k \in DOMAIN glTable : k[1] = "GT" /\ glTable[k].type = type})]
    /\ glUndone = 0
    /\ glBlurred = {} /\ glAstray = [lost |-> {}, hit |-> FALSE]

(* Type and name rows of earlier records stay, owners and blobs too. *)
Exact(t) == Restrict(t, {k \in DOMAIN t :
    /\ k[1] \in {"GT", "GZ", "GQ", "GP", "GB", "GR", "GH", "GC"}
    /\ CASE k[1] = "GR" -> <<k[3], k[2]>> \notin glBlurred
         [] k[1] = "GB" -> Tail(k) \notin glBlurred
         [] k[1] = "GH" -> <<k[2]>> \notin glBlurred
         [] OTHER -> <<Last(k)>> \notin glBlurred})

GlyphsAsResynced(resynced) ==
    glAstray.hit \/ glCache # NoGlyphs \/ Exact(glTable) = Exact(resynced)

(* What the unspent outputs of a chain carry: <<owner, ref>> -> amount. *)
Held(chain) ==
    LET unspent == UnspentAfter(chain)
    IN  [k \in UNION {{<<o.owner, ref>> : ref \in RefsOf(o)} : o \in unspent} |->
            FoldSet(LAMBDA o, n : n + o.value, 0,
                    {x \in unspent : x.owner = k[1] /\ k[2] \in RefsOf(x)})]

(* Balances and holders are what the unspent outputs carry. *)
BalancesMatch(held) ==
    LET sharp == {k \in DOMAIN glTable : k[1] = "GB" /\ Tail(k) \notin glBlurred}
    IN  /\ {Tail(k) : k \in sharp} = DOMAIN held \ glBlurred
        /\ \A k \in sharp : /\ glTable[k] = held[Tail(k)]
                             /\ Get(glTable, HolderKey(k)) = {glTable[k]}

(* Each token is listed under exactly what its record says, and under its type; each
   holder has its script on record; metadata is there unless denied.  Looked at after
   each write of the table. *)
RowsAgree ==
    LET tokens == {k \in DOMAIN glTable : k[1] = "GT"}
        lists == {k \in DOMAIN glTable : k[1] \in {"GZ", "GQ", "GP"}}
    IN  glCache = NoGlyphs =>
        /\ lists = UNION {DOMAIN _discovery_rows(k[2], glTable[k]) : k \in tokens}
        /\ \A k \in tokens :
              /\ <<"GY", glTable[k].type, k[2]>> \in DOMAIN glTable
              /\ glTable[k].meta # "none" /\ k[2] \notin Denied =>
                    <<"GM", glTable[k].meta>> \in DOMAIN glTable
        /\ \A k \in DOMAIN glTable : k[1] = "GR" => <<"GO", k[3]>> \in DOMAIN glTable
=============================================================================
