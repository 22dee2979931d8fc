--------------------------- MODULE DMintContracts ---------------------------
(***************************************************************************)
(* The list of mineable tokens for miners (server/dmint_contracts.py): a   *)
(* JSON file beside the DB, brought up to date from the token index after  *)
(* each commit of a flush or of a block's undoing, and the summaries that  *)
(* requests build from it and keep.                                        *)
(*                                                                         *)
(* The file is written whenever the list changes, so memory and file are   *)
(* one variable here.  Icons, algorithms and the other fields that are     *)
(* only copied are left out.                                               *)
(***************************************************************************)
EXTENDS GlyphQueries

VARIABLES
    dmContracts, \* <<[ref, deployed, reward, total, mined, live, active, orphaned]>>
    dmHeight,    \* last_updated_height
    dmDenied,    \* the refs in dmint_denylist.json, which is read again before each use
    dmSummaries, \* the memoized summaries: {} or {[key, items]}
    (* history *)
    dmBehind     \* a commit or an edit has not been followed by a sync

dmVars == <<dmContracts, dmHeight, dmDenied, dmSummaries, dmBehind>>

is_denied(ref) == ref \in dmDenied

-----------------------------------------------------------------------------
(* sync_from_index; t is the table after the commit *)

(* The index's own word, or the supply's where liveness is not tracked. *)
DesiredActive(token) ==
    ~is_fully_mined(token) /\ (token.live = {} \/ \E n \in token.live : n > 0)

IndexedTokens(t) ==
    LET rows == {k \in DOMAIN t : k[1] = "GY" /\ k[2] = "DMINT" /\ ~is_denied(k[3])}
        sorted == Ordered(rows, LAMBDA a, b : Rank(Last(a)) < Rank(Last(b)))
    IN  [n \in DOMAIN sorted |-> Last(sorted[n])]

(* A value of zero does not replace what is listed. *)
Kept(new, old) == IF new = 0 THEN old ELSE new

(* Mutant: a contract that was orphaned or exhausted once stays inactive. *)
Updated_latched(c, token) ==
    [c EXCEPT !.reward = Kept(token.reward, @), !.total = Kept(token.total, @),
              !.mined = Kept(token.mined, @), !.live = IF token.live = {} THEN @ ELSE token.live,
              !.active = @ /\ DesiredActive(token), !.orphaned = @ /\ ~DesiredActive(token)]

Updated(c, token) ==
    [c EXCEPT !.reward = Kept(token.reward, @), !.total = Kept(token.total, @),
              !.mined = Kept(token.mined, @), !.live = IF token.live = {} THEN @ ELSE token.live,
              !.active = DesiredActive(token), !.orphaned = @ /\ ~DesiredActive(token)]

(* add_contract: before the first that was deployed later *)
Added(list, ref, token) ==
    LET c == [ref |-> ref, deployed |-> token.deployed, reward |-> token.reward,
              total |-> token.total, mined |-> token.mined, live |-> token.live,
              active |-> DesiredActive(token), orphaned |-> FALSE]
        later == {n \in DOMAIN list : list[n].deployed > token.deployed}
    IN  InsertAt(list, IF later = {} THEN Len(list) + 1 ELSE Min(later), c)

Listed(list, ref) == \E n \in DOMAIN list : list[n].ref = ref

(* A ref that the index does not have is an orphan, unless the index has none. *)
Swept(list, refs) ==
    IF refs = {} THEN list
    ELSE [n \in DOMAIN list |->
            IF list[n].ref \notin refs /\ list[n].active
            THEN [list[n] EXCEPT !.active = FALSE, !.orphaned = TRUE] ELSE list[n]]

Synced(list, t) ==
    LET refs == IndexedTokens(t)
        token(ref) == t[<<"GT", ref>>]
        merged == FoldLeft(LAMBDA l, ref :
                     IF Listed(l, ref)
                     THEN [n \in DOMAIN l |-> IF l[n].ref = ref THEN Updated(l[n], token(ref)) ELSE l[n]]
                     ELSE Added(l, ref, token(ref)),
                  list, refs)
    IN  Swept(merged, Range(refs))

sync_from_index(height, t) ==
    /\ dmContracts' = Synced(dmContracts, t)
    /\ dmHeight' = IF dmContracts' = dmContracts THEN dmHeight ELSE height
    /\ dmBehind' = FALSE
    /\ UNCHANGED <<dmDenied, dmSummaries>>

-----------------------------------------------------------------------------
(* Requests *)

to_token_summary_item(c) ==
    LET finished == ~c.active \/ (c.total > 0 /\ c.mined >= c.total)
    IN  [ref |-> c.ref, deployed |-> c.deployed, finished |-> finished,
         left |-> IF finished THEN {0} ELSE c.live,
         supply |-> <<c.total, c.mined, Max({c.total - c.mined, 0})>>]

(* Mutant: the summaries are kept until the denylist changes. *)
CacheKey_denied == dmDenied

CacheKey == <<dmHeight, dmDenied>>

FreshItems ==
    LET shown == SelectSeq(dmContracts, LAMBDA c : ~is_denied(c.ref))
    IN  [n \in DOMAIN shown |-> to_token_summary_item(shown[n])]

(* token_summary_items: kept while the height of the last change and the denylist
   stay. *)
SummaryItems ==
    IF \E s \in dmSummaries : s.key = CacheKey
    THEN (CHOOSE s \in dmSummaries : TRUE).items ELSE FreshItems

(* get_contracts_v2: what it answers, and what it leaves in memory *)
get_contracts_v2(status, offset, limit) ==
    LET items == SelectSeq(SummaryItems, LAMBDA i : status = "all" \/ i.finished = (status = "finished"))
        sorted == SortSeq(items, LAMBDA a, b : a.deployed > b.deployed)
        page == SubSeq(sorted, offset + 1, Min({offset + limit, Len(sorted)}))
    IN  [items |-> page, total |-> Len(items), height |-> dmHeight,
         next |-> IF offset + Len(page) < Len(items) THEN {offset + Len(page)} ELSE {}]

ServeContracts ==
    /\ dmSummaries' = IF \E s \in dmSummaries : s.key = CacheKey THEN dmSummaries
                      ELSE {[key |-> CacheKey, items |-> FreshItems]}
    /\ UNCHANGED <<dmContracts, dmHeight, dmDenied, dmBehind>>

get_contracts_extended(active_only) ==
    SelectSeq(dmContracts, LAMBDA c : ~is_denied(c.ref) /\ (active_only => c.active))

get_contract(ref) == SelectSeq(dmContracts, LAMBDA c : c.ref = ref)

(* The operator edits the denylist: requests look at it at once, the list with the
   next sync. *)
EditDenylist(refs) ==
    /\ dmDenied' = refs /\ dmBehind' = TRUE
    /\ UNCHANGED <<dmContracts, dmHeight, dmSummaries>>

(* load_contracts *)
DMintRestart == dmSummaries' = {} /\ UNCHANGED <<dmContracts, dmHeight, dmDenied, dmBehind>>

(* Killed after the commit and before the sync. *)
DMintMissed ==
    /\ dmSummaries' = {} /\ dmBehind' = TRUE
    /\ UNCHANGED <<dmContracts, dmHeight, dmDenied>>

DMintInit(height) ==
    /\ dmDenied = {} /\ dmSummaries = {} /\ dmBehind = FALSE
    /\ dmContracts = Synced(<< >>, glTable)
    /\ dmHeight = height

-----------------------------------------------------------------------------
(* Once the list is synced, a contract is listed as mineable if and only if the index
   has it as mineable: it comes back after an orphaning or an exhaustion that a reorg
   undid, it goes when its last contract is burned or its supply mined, and each ref
   is listed once, in order of deployment.  An index without any token deactivates
   nothing. *)
ListingFollowsIndex ==
    LET refs == Range(IndexedTokens(glTable))
        active == {c.ref : c \in Range(get_contracts_extended(TRUE))}
    IN  ~dmBehind /\ glCache = NoGlyphs =>
        /\ \A ref \in refs : ref \in active <=> DesiredActive(glTable[<<"GT", ref>>])
        /\ refs # {} => active \subseteq {Last(k) : k \in Range(get_dmint_tokens(TRUE, 1, 9).found)}
        /\ \A m, n \in DOMAIN dmContracts : m < n =>
              /\ dmContracts[m].ref # dmContracts[n].ref
              /\ dmContracts[m].deployed <= dmContracts[n].deployed

(* What get_contracts_v2 answers is the list as it is, in pages that cover it once. *)
SummariesExact ==
    LET all == get_contracts_v2("all", 0, 9)
        first == get_contracts_v2("all", 0, 1)
    IN  /\ SummaryItems = FreshItems
        /\ all.total = Len(FreshItems)
        /\ \A n \in first.next : first.items \o get_contracts_v2("all", n, 9).items = all.items
        /\ \A i \in Range(get_contracts_v2("mineable", 0, 9).items) :
              \A c \in Range(get_contract(i.ref)) : c.active /\ 0 \notin i.left
=============================================================================
