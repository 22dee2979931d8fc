--------------------------- MODULE ServiceIndexes ---------------------------
(***************************************************************************)
(* WAVE names, realms, listings, markets and analytics along the chain:    *)
(* given each tx by advance_txs, written by each flush in the UTXO DB's    *)
(* batch, undone by flush_backup.  They start on a DB that was indexed     *)
(* without them, so names and realms are filled in from the token index    *)
(* when the DB is opened, and analytics by a task beside the block         *)
(* processor.                                                              *)
(***************************************************************************)
EXTENDS WaveIndex, RealmIndex, RoyaltyIndex, PredictIndex, AnalyticsIndex

CONSTANTS Blocks,    \* each as its chain: the sequence of the names up to it
          FirstTip,  \* where these indexes are switched on
          HotNames,  \* the names that clients resolve
          MaxTroubles, \* bound: blocks undone and processes started again
          LastBackfill \* bound: the height after which no backfill begins

VARIABLES
    tip, dbTip, top, backups,  \* as in OverlayIndexes
    svCache, svTable, svUndo, svPruned,
    anTask,    \* the analytics backfill of this process, with the height it opened the DB at
    restarts,
    (* history *)
    svMixed,   \* <<height, key>>: changed at another height of the same window
    svBlurred, \* keys that a reorg of such a height has put back
    anQuiet,   \* no block came during the backfill, which began at the first row, and
               \* no undo record holds balances of before
    anExact    \* the last backfill was quiet

chainVars == <<tip, dbTip, top, backups, restarts>>
svVars == <<svCache, svTable, svUndo, svPruned, svMixed, svBlurred>>
anVars == <<anTask, anQuiet, anExact>>
vars == <<chainVars, svVars, anVars, waHot>>

ASSUME BlocksAssumption ==
    /\ FirstTip \in Blocks
    /\ \A b \in Blocks \ {FirstTip} : b # << >> /\ Front(b) \in Blocks
    /\ ReorgLimit \in Nat \ {0} /\ ChunkSize \in Nat \ {0}

(* The indexes in the order in which advance_txs calls them. *)
ServiceTx(c, t, tx, h, i) ==
    Eagerly(Eagerly(RealmProcessTx(WaveProcessTx(c, t, tx, h, i), t, tx, h),
                    LAMBDA v : PredictProcessTx(v, tx, h)),
            LAMBDA v : RoyaltyProcessTx(v, t, tx, h))

ServiceBlock(c, t, name, h) ==
    Eagerly(FoldLeftDomain(LAMBDA v, i : Eagerly(v, LAMBDA u : ServiceTx(u, t, BlockTxs[name][i], h, i)),
                           c, BlockTxs[name]),
            LAMBDA v : AnalyticsProcessBlock(v, t, BlockTxs[name], h))

(* The addresses whose balance process_block misreads: that spend more in a block than
   they had before it, or whose row of the DB waits to be deleted when they are paid. *)
Misread(c, t, name) ==
    LET spent == {Output[op] : op \in SpendsOf(BlockTxs[name])}
        total(a) == FoldSet(LAMBDA o, n : n + o.value, 0, {o \in spent : o.owner = a})
        payees == {o.owner : o \in Range(OutputsOf(BlockTxs[name]))}
        spenders == {o.owner : o \in spent}
        Waits(a) == LET k == <<"AB", a>> IN k \in DOMAIN t /\ k \in DOMAIN c.rows /\ c.rows[k] = {}
        Emptied(a) == <<"AB", a>> \in DOMAIN t /\ total(a) = _get_balance(c, t, a)
    IN  {<<"AB", a>> : a \in {x \in spenders : total(x) > _get_balance(c, t, x) \/ Waits(x)}
                         \cup {x \in payees : Waits(x) \/ Emptied(x)}}

Advance ==
    \E b \in Blocks \ {FirstTip} :
        /\ Front(b) = tip
        /\ tip' = b
        /\ svCache' = ServiceBlock(svCache, svTable, Last(b), Len(b))
        /\ LET mixed == MixedRows(svCache', svCache, Len(b))
               over == Misread(svCache, svTable, Last(b))
           IN  /\ svMixed' = svMixed \cup ({Len(b)} \X mixed)
                                     \cup {<<svCache.heights[k], k>> : k \in mixed}
               /\ svBlurred' = svBlurred \cup over
        /\ _invalidate_hot_name_by_ref(Retargeted(svCache', svCache))
        /\ anQuiet' = (anQuiet /\ anTask.phase # "scan")
        /\ UNCHANGED <<dbTip, top, backups, restarts, svTable, svUndo, svPruned, anTask, anExact>>

Flush ==
    LET c == WaveFlushed(svCache)
        to == PruneTo(Len(tip), ReorgLimit)
    IN  /\ Len(tip) # Len(dbTip)
        /\ dbTip' = tip
        /\ top' = Max({top, Len(tip)})
        /\ svTable' = FlushedRows(c, svTable)
        /\ svUndo' = RecordedRows(Pruned(svUndo, svPruned, to), c, svTable)
        /\ svPruned' = IF to <= svPruned THEN svPruned ELSE to
        /\ svCache' = NoRows
        /\ anQuiet' = (anQuiet /\ anTask.phase # "scan")
        /\ svMixed' = {m \in svMixed : m[1] > to}
        /\ UNCHANGED <<tip, backups, restarts, svBlurred, anTask, anExact, waHot>>

(* Bound: not while the backfill scans. *)
Backup ==
    /\ tip = dbTip /\ tip # FirstTip /\ anTask.phase # "scan"
    /\ Len(tip) > top - ReorgLimit
    /\ tip' = Front(tip) /\ dbTip' = Front(tip)
    /\ backups + restarts < MaxTroubles /\ backups' = backups + 1
    /\ svTable' = Reverted(svTable, svUndo, Len(tip))
    /\ svUndo' = Forgotten(svUndo, Len(tip))
    /\ svBlurred' = svBlurred \cup {m[2] : m \in {x \in svMixed : x[1] = Len(tip)}}
    /\ svMixed' = {m \in svMixed : m[1] # Len(tip)}
    /\ UNCHANGED <<top, restarts, svCache, svPruned, anVars, waHot>>

(* Opened with what the token index knows. *)
Opened(chain, t) ==
    RealmBackfill(WaveBackfill(NoRows, t, RevealedIn(chain)), t, RevealedIn(chain))

Restart ==
    /\ backups + restarts < MaxTroubles /\ restarts' = restarts + 1
    /\ tip' = dbTip
    /\ svCache' = Opened(dbTip, svTable) /\ svPruned' = -1
    /\ waHot' = << >>
    /\ anTask' = [phase |-> "due", height |-> Len(dbTip)] /\ anQuiet' = FALSE
    /\ UNCHANGED <<dbTip, top, backups, svTable, svUndo, svMixed, svBlurred, anExact>>

(* The backfill waits until the server has caught up and all is flushed. *)
BackfillBegin ==
    LET r == BackfillChunk(Begun(svTable, dbTip, anTask.height),
                           Written(svTable, <<"BFP">> :> "", {}), dbTip)
        quiet == ~Resumes(svTable) /\ (anExact \/ svUndo = << >>)
    IN  /\ anTask.phase = "due" /\ tip = dbTip /\ Len(tip) <= LastBackfill
        /\ IF _needs_backfill(svTable)
           THEN /\ anTask' = r.task /\ svTable' = r.table
                /\ anQuiet' = (quiet /\ r.task.phase = "scan")
                /\ anExact' = IF r.task.phase = "done" THEN quiet ELSE anExact
           ELSE anTask' = [phase |-> "done"] /\ UNCHANGED <<svTable, anQuiet, anExact>>
        /\ UNCHANGED <<chainVars, svCache, svUndo, svPruned, svMixed, svBlurred, waHot>>

BackfillNext ==
    LET r == BackfillChunk(anTask, svTable, dbTip)
    IN  /\ anTask.phase = "scan"
        /\ anTask' = r.task /\ svTable' = r.table
        /\ anExact' = IF r.task.phase = "done" THEN anQuiet ELSE anExact
        /\ anQuiet' = (anQuiet /\ r.task.phase = "scan")
        /\ UNCHANGED <<chainVars, svCache, svUndo, svPruned, svMixed, svBlurred, waHot>>

(* A client resolves a name; bound: at the first height and at that of the longest chain. *)
ResolveName ==
    \E name \in HotNames :
        /\ tip = dbTip /\ Len(tip) \in {Len(FirstTip) + 1, Max({Len(b) : b \in Blocks})}
        /\ Resolve(svCache, svTable, name)
        /\ UNCHANGED <<chainVars, svVars, anVars>>

Init ==
    /\ tip = FirstTip /\ dbTip = FirstTip /\ top = Len(FirstTip) /\ backups = 0
    /\ restarts = 0
    /\ svTable = << >> /\ svUndo = << >> /\ svPruned = -1
    /\ svCache = Opened(FirstTip, << >>)
    /\ svMixed = {} /\ svBlurred = {}
    /\ anTask = [phase |-> "due", height |-> Len(FirstTip)] /\ anQuiet = FALSE /\ anExact = FALSE
    /\ waHot = << >>

Next ==
    \/ Advance \/ Flush \/ Backup \/ Restart
    \/ BackfillBegin \/ BackfillNext \/ ResolveName

Spec == Init /\ [][Next]_vars

-----------------------------------------------------------------------------
(* Properties *)

(* What the rows should be on each chain, had there been no flush and no reorg. *)
ExpectedAt == [b \in Blocks |->
    LET blocks == SubSeq(b, Len(FirstTip) + 1, Len(b))
    IN  FlushedRows(WaveFlushed(
            FoldLeftDomain(LAMBDA c, n : Eagerly(c, LAMBDA v :
                               ServiceBlock(v, << >>, blocks[n], Len(FirstTip) + n)),
                           Opened(FirstTip, << >>), blocks)), << >>)]

AllNames == {env.name : env \in UNION {EnvelopeOf(tx) : tx \in AllTxs}}
Owners == {o.owner : o \in AllOutputs}
Sharp(f) == Restrict(f, {k \in DOMAIN f : k \notin svBlurred})
Current == FlushedRows(WaveFlushed(svCache), svTable)

(* Of each name, what resolve and check_available say; expected are the chain's rows. *)
NamesResolve(expected) ==
    \A name \in AllNames :
        LET now == Resolved(svCache, svTable, name)
            then == Resolved(NoRows, expected, name)
            Owned(r) == <<"WO", r.ref>> \notin svBlurred
        IN  <<"WN", name>> \notin svBlurred =>
            /\ {<<r.ref, r.zone>> : r \in now} = {<<r.ref, r.zone>> : r \in then}
            /\ {<<r.ref, r.owner>> : r \in {x \in now : Owned(x)}}
                 = {<<r.ref, r.owner>> : r \in {x \in then : Owned(x)}}
            /\ check_available(svCache, svTable, name) => now = {}

(* Of each owner, what reverse_lookup says. *)
NamesReverse(expected) ==
    \A owner \in Owners :
        LET then == {k[2] : k \in {x \in DOMAIN expected : x[1] = "WO" /\ expected[x] = owner}}
            Sure(S) == {ref \in S : <<"WO", ref>> \notin svBlurred}
        IN  Sure(reverse_lookup(svCache, svTable, owner)) = Sure(then)

HeldBySingleton(expected) ==
    \A o \in UnspentAfter(tip) : \A k \in DOMAIN expected :
        k[1] = "WSG" /\ Carries(o, k[2], "nft") =>
            expected[<<"WO", expected[<<"WN", expected[k]>>]>>] = o.owner

NamesAre(expected) ==
    /\ NamesResolve(expected)
    /\ HeldBySingleton(expected)
    /\ svCache.rows = << >> => NamesReverse(expected)

(* A name resolves to its first registration on the chain, to the target that its
   holder set last and to the owner who holds its singleton, whatever flushes, reorgs
   and restarts came between; an owner's names are those that resolve to that owner;
   what resolve remembers is not older than the last change of the target, until a
   block is undone. *)
NamesFollowChain ==
    /\ Eagerly(ExpectedAt[tip], NamesAre)
    /\ backups = 0 => \A name \in DOMAIN waHot :
          {waHot[name].zone} = {r.zone : r \in Resolved(svCache, svTable, name)}

(* The names' tree and duplicates, the realms, the listings and the markets are those of
   the chain, but for the rows that were changed twice between two flushes and then
   partly undone; a listing is in all three lists while it is open and in none after. *)
RecordsFollowChain ==
    LET Kept(f) == Restrict(f, {k \in DOMAIN f : k[1] \in {"WN", "WD", "WT", "WSG", "RM", "RS", "RLm",
                                                            "RLr", "RLs", "RLa", "PM", "PH"}})
        open == {k[2] : k \in {x \in DOMAIN svTable : x[1] = "RLm" /\ svTable[x].open}}
    IN  /\ Sharp(Kept(Current)) = Sharp(Kept(ExpectedAt[tip]))
        /\ svCache.rows = << >> =>
              /\ \A list \in {"RLr", "RLs", "RLa"} : get_listings(svCache, svTable, list, {}) = open
              /\ \A k \in DOMAIN svTable : k[1] \in {"RLr", "RLs", "RLa"} => Last(k) \in open
              /\ {get_market(svCache, svTable, r) : r \in Range(list_markets(svTable, 0, 9))}
                   = {{svTable[k]} : k \in {x \in DOMAIN svTable : x[1] = "PM"}}
              /\ total_realms(svCache, svTable)
                   = Cardinality(realm_list(svCache, svTable, "any", "any", << >>))

(* After a backfill that no block disturbed, an address's balance is the sum of its
   unspent outputs, through blocks, flushes, reorgs and restarts, and the distribution
   and the list of the richest agree with it.  Excepted are the misread balances, and
   what was changed at two heights of a window and partly undone. *)
BalancesFollowOutputs ==
    LET sum(a) == FoldSet(LAMBDA o, n : n + o.value, 0, {o \in UnspentAfter(dbTip) : o.owner = a})
        known == get_balance_distribution(NoRows, svTable)
        top2 == get_top_addresses(svTable, 2, 0)
    IN  anExact =>
        /\ \A a \in Owners : <<"AB", a>> \notin svBlurred => Get(svTable, <<"AB", a>>) = {sum(a)} \ {0}
        /\ (\A k \in svBlurred : k[1] \notin {"AB", "AS"}) =>
              /\ \A b \in DOMAIN known : known[b].count = Recomputed(svTable)[b]
              /\ top2.total = Cardinality({a \in Owners : sum(a) > 0})
              /\ \A k \in DOMAIN svTable : k[1] = "AB" =>
                    k \in Range(top2.rows) \/ svTable[k] <= svTable[Last(top2.rows)]
=============================================================================
