---------------------------- MODULE GlyphQueries ----------------------------
(***************************************************************************)
(* What clients read from the token index (the query methods of            *)
(* server/glyph_index.py).  Reads see the caches for single records and    *)
(* the flushed rows for lists; lists are walked in pages, a page's cursor  *)
(* being the key of the first row it did not look at.                      *)
(***************************************************************************)
EXTENDS GlyphIndex

Rank(ref) == CHOOSE i \in DOMAIN RefOrder : RefOrder[i] = ref
Hydrated(ref) == get_token(glCache, glTable, ref)

Ordered(S, Before(_, _)) == SortSeq(FoldSet(LAMBDA x, q : Append(q, x), << >>, S), Before)

(* The rows of a list in the order of their keys: the newest first, then by ref. *)
Newer(a, b) ==
    LET ha == a[Len(a) - 1]
        hb == b[Len(b) - 1]
    IN  ha > hb \/ (ha = hb /\ Rank(Last(a)) < Rank(Last(b)))
Rows(prefix) == {k \in DOMAIN glTable : k[1] = prefix[1] /\ IsPrefix(prefix, k)}
ByRecency(prefix) == Ordered(Rows(prefix), Newer)
ByRef(prefix) == Ordered(Rows(prefix), LAMBDA a, b : Rank(Last(a)) < Rank(Last(b)))

-----------------------------------------------------------------------------
(* Pages *)

(* Mutant: the cursor passes over a row that nobody looked at. *)
CursorAfter_skips(stop) == stop + 2

(* The row after the last one looked at. *)
CursorAfter(stop) == stop + 1

(* _paginate_hydrated: rows from a cursor on, until limit of them are good; rows
   that are not cost nothing of the limit.  next is the cursor, {} at the end. *)
Page(rows, from, limit, Good(_)) ==
    LET good == SelectSeq([n \in 1 .. Len(rows) |-> n], LAMBDA n : n >= from /\ Good(rows[n]))
        found == SubSeq(good, 1, Min({limit, Len(good)}))
        stop == IF Len(good) < limit THEN Len(rows) ELSE Last(found)
        next == CursorAfter(stop)
    IN  [found |-> [n \in DOMAIN found |-> rows[found[n]]],
         next |-> IF next > Len(rows) THEN {} ELSE {next}]

(* All pages of a list, one after the other. *)
Walk(rows, limit, Good(_)) ==
    LET walked[from \in 1 .. Len(rows) + 1] ==
            LET page == Page(rows, from, limit, Good)
            IN  IF page.next = {} THEN page.found
                ELSE page.found \o walked[CHOOSE n \in page.next : TRUE]
    IN  walked[1]

-----------------------------------------------------------------------------
(* Lists of tokens *)

(* _is_companion_singleton: for records without the flag, a nameless bare singleton
   that is not the first output of a tx whose first is named. *)
IsFirstOutput(ref) == \A r \in DOMAIN MintOf : MintOf[r] = MintOf[ref] => Rank(ref) <= Rank(r)

_is_companion_singleton(token, ref) ==
    \/ token.companion
    \/ /\ token.name = "none" /\ token.meta = "none" /\ token.parent = "none"
       /\ token.type = "NFT" /\ token.protos = {"NFT"}
       /\ ~IsFirstOutput(ref)
       /\ \E r \in DOMAIN MintOf : /\ MintOf[r] = MintOf[ref] /\ IsFirstOutput(r)
                                   /\ \E x \in Hydrated(r) : x.name # "none"

Present(k) == Hydrated(Last(k)) # {}
NotPlumbing(k) == \E x \in Hydrated(Last(k)) : ~_is_companion_singleton(x, Last(k))

get_tokens_by_type(type, order, from, limit) ==
    IF order = "recent" THEN Page(ByRecency(<<"GZ", type>>), from, limit, NotPlumbing)
    ELSE Page(ByRef(<<"GY", type>>), from, limit, Present)

get_recent_tokens(from, limit) ==
    Page(ByRecency(<<"GQ">>), from, limit,
         LAMBDA k : NotPlumbing(k) /\ \A x \in Hydrated(Last(k)) : x.type # "unknown")

get_tokens_by_protocol(proto, from, limit) ==
    Page(ByRecency(<<"GP", proto>>), from, limit, Present)

list_encrypted_tokens(timelocked, from, limit) ==
    IF timelocked
    THEN Page(ByRecency(<<"GP", "TIME">>), from, limit,
              LAMBDA k : \E x \in Hydrated(Last(k)) : "ENC" \in x.protos)
    ELSE Page(ByRecency(<<"GP", "ENC">>), from, limit, Present)

(* Mutant: liveness is not looked at. *)
Mineable_spent(token) == ~is_fully_mined(token) /\ ~token.spent

(* dmint_mineable, and is_spent where liveness is not tracked. *)
Mineable(token) ==
    /\ ~is_fully_mined(token)
    /\ IF token.live = {} THEN ~token.spent ELSE \E n \in token.live : n > 0

(* The rows to skip are skipped before the limit is looked at. *)
get_dmint_tokens(active, from, limit) ==
    Page(SelectSeq(ByRef(<<"GY", "DMINT">>),
                   LAMBDA k : \E x \in Hydrated(Last(k)) : ~active \/ Mineable(x)),
         from, limit, Present)

search_tokens(name, protos, from, limit) ==
    Page(ByRef(<<"GN", name>>), from, limit,
         LAMBDA k : \E x \in Hydrated(Last(k)) : protos = {} \/ x.protos \cap protos # {})

(* With an offset instead of a cursor; total is the counter's. *)
get_all_tokens_summary(type, limit, offset) ==
    LET rows == IF type = "all" THEN ByRef(<<"GT">>) ELSE ByRef(<<"GY", type>>)
    IN  [total |-> IF type = "all" THEN FoldSet(LAMBDA x, n : n + glStats[x], 0, Types)
                   ELSE glStats[type],
         found |-> Page(rows, offset + 1, limit, Present).found]

-----------------------------------------------------------------------------
(* Balances, holders, events *)

get_balance(owner, ref) ==
    LET key == <<"GB", owner, ref>>
    IN  IF key \in DOMAIN glCache.balances THEN glCache.balances[key]
        ELSE IF key \in DOMAIN glTable THEN glTable[key] ELSE 0

get_balances_for_scripthash(owner, from, limit) ==
    Page(ByRef(<<"GB", owner>>), from, limit, Present)

Holders(ref) == {k \in Rows(<<"GR", ref>>) : glTable[k] > 0}

get_token_holders(ref, from, limit) ==
    Page(Ordered(Holders(ref), LAMBDA a, b : FALSE), from, limit, LAMBDA k : TRUE)

get_top_holders(ref, limit) ==
    LET sorted == Ordered(Holders(ref), LAMBDA a, b : glTable[a] > glTable[b])
    IN  [holder_count |-> Cardinality(Holders(ref)),
         top |-> SubSeq(sorted, 1, Min({limit, Len(sorted)}))]

Events(ref) ==
    Ordered(Rows(<<"GH", ref>>), LAMBDA a, b : a[3] < b[3] \/ (a[3] = b[3] /\ a[4] < b[4]))

get_token_history(ref, from, limit) == Page(Events(ref), from, limit, LAMBDA k : TRUE)

(* get_mint_history, get_token_burns, get_token_trades: the events of one kind, the
   total counted beyond the page.  No step writes an event of a transfer. *)
EventsOf(ref, event, limit, offset) ==
    LET all == SelectSeq(Events(ref), LAMBDA k : glTable[k] = event)
    IN  [total |-> Len(all), found |-> SubSeq(all, offset + 1, Min({offset + limit, Len(all)}))]

(* Without holders, what the record says was issued. *)
get_token_supply(ref) ==
    LET token == CHOOSE x \in Hydrated(ref) : TRUE
        held == FoldSet(LAMBDA k, n : n + glTable[k], 0, Holders(ref))
    IN  [circulating |-> IF held = 0 THEN token.initial + token.mined ELSE held,
         holder_count |-> Cardinality(Holders(ref)),
         burned |-> EventsOf(ref, "burn", 1, 0).total]

-----------------------------------------------------------------------------
(* Walking a list page by page gives each of its good rows once and in order,
   whatever the size of the page: by type, by protocol, over all.  The list of recent
   tokens "Matches the union of the per-type recency lists". *)
PagesCoverList ==
    LET Covered(rows, Good(_)) == \A limit \in 1 .. 2 : Walk(rows, limit, Good) = SelectSeq(rows, Good)
        All(page) == {Last(k) : k \in Range(page.found)}
        many == Len(RefOrder)
    IN  glCache = NoGlyphs =>
        /\ Covered(ByRecency(<<"GQ">>), NotPlumbing)
        /\ \A type \in Types : Covered(ByRecency(<<"GZ", type>>), NotPlumbing)
        /\ \A p \in {"NFT", "FT"} : Covered(ByRecency(<<"GP", p>>), Present)
        /\ All(get_recent_tokens(1, many))
             = UNION {All(get_tokens_by_type(type, "recent", 1, many)) : type \in Types \ {"unknown"}}

(* What the queries say of one token agrees: its supply is the sum of its holders'
   balances, each of them the balance that its owner is shown, and in the owner's list;
   the largest holder comes first; its mints are its mint events; a search for its
   name finds it, and the list of encrypted tokens if it is encrypted. *)
QueriesAgree ==
    glCache = NoGlyphs /\ ~glAstray.hit =>
    /\ LET all == get_all_tokens_summary("all", Len(RefOrder), 0)
       IN  all.total = Len(all.found) + glUndone
    /\ \A ref \in {k[2] : k \in {x \in Rows(<<"GT">>) : Tail(x) \notin glBlurred}} :
           LET token == glTable[<<"GT", ref>>]
               owners == {k[3] : k \in Holders(ref)}
               shown == FoldSet(LAMBDA o, n : n + get_balance(o, ref), 0, owners)
               mints == EventsOf(ref, "mint", 1, 0).total
           IN    /\ Cardinality(owners) = Len(get_token_holders(ref, 1, 9).found)
                 /\ \A o \in owners :
                       \E k \in Range(get_balances_for_scripthash(o, 1, 9).found) : Last(k) = ref
                 /\ Len(get_token_history(ref, 1, 9).found) = Len(Events(ref))
                 /\ "ENC" \in token.protos <=>
                       \E k \in Range(list_encrypted_tokens(FALSE, 1, 9).found) : Last(k) = ref
                 /\ owners # {} => shown = get_token_supply(ref).circulating
                 /\ \A k \in Holders(ref) :
                       glTable[get_top_holders(ref, 1).top[1]] >= glTable[k]
                 /\ ref \notin Denied => mints = token.mints
                 /\ token.name # "none" =>
                       \E k \in Range(search_tokens(token.name, {}, 1, 9).found) : Last(k) = ref

(* The mineable tokens are those of which a contract is unspent and that are not
   mined out. *)
MineableFollows(chain) ==
    LET listed == {Last(k) : k \in Range(get_dmint_tokens(TRUE, 1, 9).found)}
        live(ref) == \E o \in UnspentAfter(chain) :
                        ~o.dead /\ \E c \in Singletons(o) : Get(glTable, <<"GC", c>>) = {ref}
    IN  glAstray.hit \/ glCache # NoGlyphs
        \/ \A k \in Rows(<<"GY", "DMINT">>) : <<k[3]>> \notin glBlurred =>
              (k[3] \in listed <=> live(k[3]) /\ ~is_fully_mined(glTable[<<"GT", k[3]>>]))
=============================================================================
