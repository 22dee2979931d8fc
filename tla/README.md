# RXinDexer in TLA+

RXinDexer is an ElectrumX server for Radiant: it follows a full node, indexes its
chain into files and two LevelDB/RocksDB databases, and answers wallets. This
directory holds TLA+ specifications of the code under `src/electrumx`, TLC
configurations that check them on small instances, and TLAPS proofs of the
theorems that hold for every instance.

    tlc -workers 2 -config MCChainStore.cfg MCChainStore
    tlapm ChainStore_proofs.tla
    tlapm OverlayIndexes_proofs.tla
    tlapm ReorgControl_proofs.tla
    tlapm MempoolSync_proofs.tla
    tlapm UtxoUndo_proofs.tla
    tlapm ServingParts_proofs.tla
    tlapm StepFold.tla
    tlapm NaturalSets.tla

## The system

One asyncio event loop runs everything; database and file work is sent to worker
threads with `run_in_thread`, and whatever runs between two `await`s is atomic
with respect to the other coroutines.

| Part | State it keeps | Operations | Hard behaviour |
|---|---|---|---|
| `Prefetcher` (block_processor.py) | `fetched_height`, `blocks`, cache size, `refill_event`, semaphore | `main_loop`, `_prefetch_blocks`, `get_prefetched_blocks`, `reset_height` | the daemon changes branch between its answers; a reset while a request is under way |
| `BlockProcessor` | `tip`, `height`, `tx_count`, `headers`, `tx_hashes`, UTXO and ref caches, `db_deletes`, undo infos, `touched`, `reorg_count` | `_advance_blocks`, `_reorg_chain`, `_calc_reorg_range`, `_backup_block`, `flush` | natural and forced reorgs, undo windows, exceptions that end the task |
| `DB` (db.py) | flat files under `meta/`; UTXO DB with `h`, `u`, `ri`, `rm`, `rl`, `rb` tables, undo records, overlay tables and the `state` entry; read caches | `flush_dbs`, `flush_backup`, `_open_dbs`, look-ups | three stores without a common transaction; readers in threads beside a flush |
| `History` (history.py) | history DB of rows hashX + flush id -> tx numbers, `unflushed`, `flush_count` | `add_unflushed`, `flush`, `backup`, `clear_excess`, compaction | row order, reuse of ids, a kill between its batch and the UTXO batch |
| Overlay indexes (`glyph_`, `wave_`, `realm_`, `swap_`, `royalty_`, `predict_`, `analytics_index.py`) | caches, undo per height, tables in the UTXO DB | `process_tx`, `flush`, `backup`, pruning, backfill | undo is taken at flush, not at the block; partial reorgs |
| `dmint_contracts.py`, `market_index.py` | a JSON file / derived views | `sync_from_index` | written outside the batch |
| `MemPool` (mempool.py, mempool_glyph.py) | `txs`, `hashXs`, deferred transactions | `_refresh_hashes`, `_process_mempool` | awaits while the DB advances |
| `Notifications` (controller.py) | touched sets of both sides by height | `on_mempool`, `on_block`, `_maybe_notify` | reports that cross |
| `SessionManager`, sessions | subscriptions, statuses, history and header caches | subscribe, notify, RPC | status stored after an await; caches invalidated by height |
| `Daemon` | URL index, cached height | `_send`, `failover` | retries over several nodes |
| `MerkleCache` (lib/merkle.py) | one level of the tree over the headers, its length | `branch_and_root`, `_extend_to`, `truncate` | a request awaits headers while another changes the cache |
| `electrumx_compact_history` | cursor and flush counts in both databases | `_compact_history`, `set_flush_count` | interrupted anywhere; the server started in between |
| `GlyphSubscriptionManager` | sessions by key, keys by session | subscribe, unsubscribe, `notify_balance_change` | pushes await while blocks come |
| Rate limiter, peers, REST and Glyph APIs | counters, peer lists | | |

How they interact: the prefetcher hands blocks to the block processor through a
list and an event; the block processor calls every index from `advance_txs` and
passes all of them to one UTXO batch at a flush; it reports touched addresses to
`Notifications`, which merges them with the mempool's and wakes the sessions;
sessions and the mempool read the DB through its caches; an operator's RPC
schedules reorgs and flushes.

What makes it correct, part by part: the stores always hold one chain, whatever
the moment of a kill; undo restores what a block changed; the index follows the
daemon and undoes no more than it must; an address's answer and its notification
belong to the chain served; overlay tables are a function of the chain and not
of flush boundaries. `PROJECT.json` lists the hazards line by line.

## Modules

### ChainStore, and what it promises: DurableIndex

`ChainStore` is the persistence protocol of `block_processor.py`, `db.py` and
`history.py`. A block is an element of a tree (`Parent`, `Height`, `TxCount`,
`Chain` are given functions of it) and adds a set of history entries
(`Touches`). The variables are the stores: `headersFile`, `txCountsFile`,
`hashesFile`, `rawBlocks` (the flat files, indexed by height or tx number, so a
branch overwrites another), `hist` (rows of hashX, flush id, tx number) with
`histFlushCount`, and `utxos`, `undo`, `dbTip`, `utxoFlushCount` for the UTXO DB;
and the memory that a kill loses. `pc` is where the flush, the backup or the
opening stands: each write to a store is an action of its own, in the order of
the code, and `Crash` may come after any of them.

| Action | Code |
|---|---|
| `OpenHistory`, `FinishOpen` | `_open_dbs`, `History.clear_excess`, `clear_excess_undo_info`, `_read_tx_counts`, `_first_open_dbs` |
| `Advance`, `EndBatch` | `_advance_block`, end of `_advance_blocks` |
| `FlushHeaders`, `FlushTxCounts`, `FlushHashes`, `FlushHistory`, `FlushUtxos` | `flush_dbs`, store by store |
| `StartReorg`, `BackupBlock`, `BackupFails` | `_reorg_chain`, `_backup_block`, the errors of `_backup_txs` |
| `BackupHistory`, `BackupUtxos` | `flush_backup`, batch by batch |

`utxos` is the set of blocks whose changes the tables hold: undoing a block with
another block's record is then visible (`BackupUtxos`), and what a record holds
is UtxoUndo's subject.

`DurableIndex` is what a user of the server may rely on: a committed tip and the
history that a restart would recover; they grow by runs of connected blocks and
shrink by one block at a time, history first. `Refines` is the refinement
mapping: the tip is `dbTip`, the history is what `clear_excess` would leave.

### UtxoUndo

The bookkeeping inside a block: `spend_utxo` with cache, table, hash-prefix
collisions and the tx-hash file; `advance_txs` with its caches of UTXOs, refs,
mints and locations and the two kinds of undo information; `flush_utxo_db`
(deletes before puts); `_backup_txs` in its reversed orders with the errors it
raises. Caches are fields of `mem`, tables fields of `db`. `w` in the operators
is the working state of one block, and `Over(f, g)` and `With(f, key, v)` are the
dictionary updates. The flush may come after any block, the crash at any state.

Its constants carry four assumptions: blocks form a tree (`BlockAssumption`), txs have
inputs and outputs (`TxAssumption`), and two that say what the daemon's consensus rules grant
of the txs of any chain. `LegalAssumption`: no tx is in it twice, every input is
an indexable output of an earlier tx, and no output is spent twice. `RefAssumption`: an output
carries a ref only if its tx spends the outpoint of that name, or an output that carries the
ref. The code relies on both without a check: `spend_utxo` takes a row that is alone under its key
prefix for the one meant, and undoing a tx deletes what it minted.

`LocsExact` leaves out the refs in `blurred`, which moved twice between two flushes, and in
`Mixed`, which some output carries as a singleton and some output as a normal ref: `_backup_txs`
deletes the location of either kind, and `advance_txs` notes what to restore for singletons alone.

### ReorgControl

The two coroutines that follow the daemon. An action is the code between two
awaits; `pf` and `bp` say where each task is. A block is the sequence of names
from height 1 up to it, because a header commits to its predecessor. The
semaphore is only ever held across an await by the prefetcher. The daemon moves
at any moment: it adds a block, or switches to a higher branch. The operator's
`force_chain_reorg` comes from the reorg RPC.

The tree of blocks is a constant: its blocks have names, and all ancestors of a
block are blocks. `ForksAreHigh` says that no branch leaves another in the lower
half of the shorter one's heights. It is a hypothesis of `ReorgExact` alone: the
windows of `_calc_reorg_range` double while they go down, and one that would
pass height 0 is cut off there, so that a fork in the lower half can be missed
and the search ends at block 0. On the real chain undo information reaches
`reorg_limit` blocks down, a reorg to a lower fork fails anyway, and every chain
longer than twice that limit satisfies the hypothesis for the reorgs that can be
carried out.

### MempoolSync

The mempool's refresh, what the block processor reports, `Notifications`, and
what a session that has subscribed to every address is told. The refresh is one
action per stretch between two awaits: `MpStart` (cached height), `MpHashes`,
`MpRetry` or `MpProcess` (the height again, the DB's height, removal of what has
disappeared), `MpFetch`, `MpLookup`, `MpAccept`, `on_mempool`. The block
processor is reduced to what the other parts see of it: its tip, the DB's chain,
`touched`, and reports; `on_block` is the end of a batch, whose flush and report
no other task can come between, and a batch that meets a block that does not
connect ends without either. `MaybeNotify` is `_maybe_notify` as a function of the
two maps; `told` is the status of each address at its last notification, and
`WithUnconfirmed` adds the addresses that `_notify_inner` looks at again. A tx has
one output; a status is the confirmed txs with their heights and the unconfirmed
ones. The fetching tasks (500 txs each) are one, and the session's answers are
computed when the report goes out: its caches are not modelled.

`missed` is a history variable that no action reads: the addresses whose report
was dropped, replaced or sent too early. `Replaced` is the second of these:
`on_block` assigns `_touched_bp[height]`, so that a report still waiting for that
height is lost when, after a reorg, the next batch ends at the same height. What
the undone blocks touched is in the new report too, but an address that only a
block below the fork touched is not, when that block was in the same batch as the
undone ones. An instance in which the chain forks one block above the start
shows it.

`Acceptable`, what the daemon's mempool can hold on a chain, and `Accepted`,
what `_accept_transactions` accepts in its rounds, are the union of the sets
that are closed under their inputs and the intersection of the sets that its
rounds cannot leave: fixpoints, where the code has loops.

### OverlayIndexes: SwapIndex, GlyphIndex, GlyphQueries, DMintContracts on UndoLog and TxFeed

The glyph, wave, realm, swap, predict, royalty and analytics indexes share one
discipline: a block changes caches and notes at which height each change was made;
the flush writes the tables and, per height, the values that the changed keys had
in the DB before the flush; `backup(height)` puts these values back; records out of
the reorg limit are pruned. `UndoLog` is that discipline on a table that is a
function from keys to rows: `Written`, `Recorded`, `Reverted`, `Forgotten`, `Pruned`.
`TxFeed` is what `advance_txs` reads out of a tx and gives to every index: the refs
of its outputs, what it spends, the glyph envelopes, the advertisements.

`SwapIndex` is the order book. An order is named by the outpoint that backs it.
`ProcessTx` closes the orders whose outpoints a tx spends and then takes its
advertisements, in that order; `SwapFlush` writes the order, its key in the
pair's book and its key in the maker's list; an advertisement of the first version
has neither pair nor maker (`"none"`). `RefsAfter` is the `ri` table of the DB, which
is all that the check of a backing reads: it is behind the chain by what is not
flushed.

`GlyphIndex` is the token index: `GlyphProcessTx` follows `process_tx` phase by phase
(registration of unseen refs, reveals with their companion singletons, contracts and
mints, what is destroyed), `process_balance_changes` moves balances and holders,
`FlushedGlyphs` writes records, lists, events, balances and contracts, and
`GlyphBackup` undoes a height. A row's key carries the code's prefix: `GT` the
record, `GZ`, `GQ`, `GP` the lists by type, over all and by protocol, `GB` and `GR`
balances by owner and by token, `GH` events, `GC` contracts, `KR` reported keys.
`Resynced` is the index of a node that read the same chain without a flush or a
reorg: it is what the rows are compared with. `GlyphQueries` has the queries: lists in
pages with a cursor, holders, supply, histories, searches.

`DMintContracts` is the list of mineable tokens kept in a JSON file, synced after each
commit, with the operator's denylist and the summaries memoized for requests.

`OverlayIndexes` runs them along the chain: `Advance` is a block given to every index,
`Flush` their part of `flush_dbs` and the sync after it, `FlushKilled` a kill between
the two, `Backup` their part of `flush_backup`, `Restart` the loss of the caches,
`RecordKeyReveal`, `AskContracts` and `Deny` a client and the operator. A flush may
come after any block and a reorg after any flush, of any depth within the limit; how
the stores survive is ChainStore's subject. `Restart` also sets the height of the last
pruning back, as the constructor does, which runs before the DB is open.

`blurred` and `glBlurred` are history variables: the orders, tokens and balances whose
rows depend on where the flushes fell, because they changed at two heights between
two flushes (or because the check of the backing would have decided otherwise with
the whole chain flushed). `glAstray` says that a key reveal has replaced the undo record
of a block, and whether a reorg then needed it.

Expiry of orders, which is computed by the reader, swap histories and the parsing of
payloads are not part of it.

### ServiceIndexes: WaveIndex, RealmIndex, RoyaltyIndex, PredictIndex, AnalyticsIndex on RowCache

`RowCache` is the cache of an index as rows that wait for the flush, each with the
height of its last change; one cache, table and undo log stand for those of the five
indexes, whose keys have different prefixes. `WaveIndex` has names with their prefix
tree, duplicates, owners by singleton, targets and the hot names; `RealmIndex`,
`RoyaltyIndex` and `PredictIndex` have realms, listings and markets; `AnalyticsIndex` has
balances, births of outputs, summaries and days, and the backfill (`BackfillChunk`) with its
cursor. `ServiceIndexes` runs them along the chain in the order of `advance_txs`, with
`Flush`, `Backup`, `Restart` (which fills names and realms in from the token index),
`BackfillBegin`, `BackfillNext` and `ResolveName`. `ExpectedAt` is what the rows would be on
each chain without flushes and reorgs. `svBlurred` plays the part of `blurred`; `anQuiet`
and `anExact` say that a backfill was not disturbed by a block.

### ServingParts: ClientReads, HeaderProofs, HistoryCompaction, PoolTokens

Four parts with nothing in common; a behaviour of `ServingParts` is one of theirs.

`ClientReads` is the caches that clients are answered from. A request reads in a worker
thread, which may run inside a flush, and its coroutine stores the answer later
(`ThreadReads`, `ThreadStores`, `Answered`); the block processor flushes in two steps
(`Advance`, `FlushRows`), reports (`on_block`), and reorganises (`StartReorg` to
`ReorgDone`); the mempool's refresh takes its height when it begins (`RefreshStarts`) and
reports for it when it ends (`on_mempool`), whatever has become of the chain meanwhile;
`MaybeNotify`, `HeaderRead`, `NotifyInner` and `StatusRead` are a notification
from `Notifications` through `_notify_sessions` to the session. `lapsed` is a history
variable: the entries that may be stale for one of the reasons listed under "What the
checks found"; the property says that there is no other reason. The attempt to prove the
property found three of these that an instance with one reorganisation does not meet: after
two, the report of a block can be replaced by that of another branch at its height, so that a
subscriber is not told (`replaced`); a block may be reported, and its report sent, before its
rows are flushed, so that a status that is read in between is kept (`silent`); and a refresh
may report for a height above a chain that has since been cut back.

`HeaderProofs` is `Merkle` and `MerkleCache`: a request reads headers up to three times
(`extend`, `leaves`, `level`), while another request or a truncation changes the cache.
The hash of two nodes is the pair, so that a mixed-up proof cannot verify. The history
variable `broken` marks the cache that got shorter, by a truncation or by an extension that
another had overtaken, while a request was about to extend it from its former end.

`HistoryCompaction` is the history DB's rows under flushes, one backup, runs of the
compaction script in passes of any length, and kills between any two commits.
`trouble` marks the three kills that the code does not recover from.

`PoolTokens` is the unconfirmed token movements and orders, the refresh that indexes and
removes txs, the push of balances, and the subscriptions. `blind`, `doubled` and `unheard`
are history variables: what the index could not see, which order is advertised twice,
which balance a block moved without any tx of it having been indexed.

### MC modules

`MCChainStore`, `MCUtxoUndo`, `MCReorgControl`, `MCMempoolSync`, `MCOverlayIndexes`,
`MCServiceIndexes` and `MCServingParts` give the trees, txs and bounds. Each
operator whose comment starts with "Mutant" or stands beside the one it varies
(`X_something` beside `X`) is a plausible mistake in `X`, kept to show that the
properties notice it; no specification uses it.

## Runs

| Run | Shows |
|---|---|
| `MCChainStore.cfg` | `TypeOK`, `HistoryExact`, `RowsInOrder`, `FilesCoverTip`, `UtxosMatchTip`, `UndoReady`, `Refines` over 1.2 million states |
| `MCChainStore_kill.cfg` | `HistoryComplete`, the HOWTO's promise, is broken by a kill inside a backup flush |
| `MCUtxoUndo.cfg` | `UtxosExact`, `NeverStops`, `RefsExact`, `MintsExact`, `LocsExact` |
| `MCUtxoUndo_locs.cfg` | `LocsRestored`, a comment's claim, is broken when a singleton moved twice between two flushes |
| `MCReorgControl.cfg` | `PrefetchContiguous`, `NoSpuriousReorg`, `ReorgExact`, and `Converges` under fairness, over 349 thousand states |
| `MCReorgControl_lost.cfg` | `QueuedReorgRuns`, a docstring's claim, is broken by a request that arrives during a reorg |
| `MCMempoolSync.cfg` | `NoDoubleSpend`, `ToldUnlessMissed`, and `Settles` under fairness, over 510 thousand states |
| `MCMempoolSync_told.cfg` | `AllTold`, the protocol's promise, is broken by a refresh that a block overtakes, without any reorg |
| `MCOverlayIndexes.cfg` | `BookFollowsChain`, `TablesAgree` for orders; `TokensAsResynced`, `BalancesFollowChain`, `RowsAgree` for tokens; `PagesCoverList`, `QueriesAgree`, `MineableFollowsChain` for what clients read; `ListingFollowsIndex`, `SummariesFresh` for the miners' list, over every placing of flushes, reorgs and restarts |
| `MCOverlayIndexes_reopens.cfg` | `ReorgReopens`, a comment's claim, is broken when an order was opened and closed between two flushes |
| `MCServiceIndexes.cfg` | `NamesFollowChain`, `RecordsFollowChain`, `BalancesFollowOutputs` over 43 thousand states |
| `MCServingParts.cfg` | `ReadsHold`, `ProofsHold`, `CompactionHolds`, `PoolHolds` over 4.0 million states |

Bounds. ChainStore: a trunk of two blocks and two branches of two, whose blocks
number their txs differently at the same heights, a reorg limit of two so that the
undo window moves, and at most four history flush ids, enough to flush, back up
two blocks and flush again, or to crash and reuse an id. A flush that would
exceed the bound is not taken. UtxoUndo: six blocks, with a tx mined in both
branches under two numbers, two txs that share a hash prefix, a singleton minted,
moved in three blocks and moved twice in one, a singleton that becomes a normal ref, an output
that is not indexed; the state space is complete. ReorgControl: heights up to 10, three branches, a cache
of two blocks and requests of two so that the cache fills and overflows, a fork
four blocks down so that the search takes three windows, two forced reorgs of one
or two blocks. MempoolSync: a block on which two branches of two and of
three blocks part, so that a report for a block below the fork can still wait when
the fork is taken; a tx mined below the fork and two that spend it, one mined in each
branch and back in the mempool when that is undone; one tx arrives besides the first
mempool, so that a refresh finds both new and disappeared txs; batches of any length.
OverlayIndexes: chains of up to five blocks with two forks, and a reorg limit of two so
that records are pruned while others are still needed; three backings, an order
advertised again at another price, one taken in the block after and one in its own
block, one whose backing carries another token, one of the first version over a
spent outpoint; tokens of every type with a second reveal, mints until the supply is
mined, a burn, a melt and a denied ref; two blocks undone, one key reveal, one edit of
the denylist, one kill before a sync (at the first height), requests for the summaries
at one height. ServiceIndexes: chains of up to four blocks with a fork, two reorgs or
restarts together, a name registered twice, retargeted twice and given away, a name
below it, two realms of one id, a sale, two markets, an output spent in its own block; the
backfill scans in chunks of three outputs, begins no later than the first height, and no block is
undone while it scans; one name is resolved, at the first and the last height. ServingParts:
one address, three heights, three changes (new blocks of the daemon and reorgs of one block
together, so that two reorgs are met) and one request that has to read, beside a
subscription; seven headers, a cache of three of them at first in segments of two, and
proofs asked for and headers undone, three together, with two requests under way at once (three requests, because it takes
a second extension to end shorter before a third request splices at the wrong place); two
addresses with rows of two entries, five txs, one block undone, two kills and two runs of the
script; five txs of a pool (a transfer, a transfer of its output, a melt, a
reveal) of which two advertise the same order, two blocks and one undone, a session with
room for one of two subscriptions. Every exception named in ServingParts'
properties is met within these bounds: without any one of them TLC finds the property
violated. All these
state spaces are complete.

Fairness (ReorgControl and MempoolSync). Both tasks are scheduled by an event loop that runs
whatever is ready, and the daemon's client retries until it has an answer: weak
fairness of each task. `asyncio.Semaphore` serves waiters in order, so
`reset_height` acquires it although the prefetcher takes it again and again:
strong fairness of `ResetAcquire`. Nothing is assumed of the daemon or the
operator; both are bounded by the instance, so that `Converges` speaks of what
happens once they are quiet. In MempoolSync the prefetcher's poll of the height
(`PollHeight`, a loop with a sleep) is weakly fair too. `MCReorgControl_lost.cfg` turns deadlock checking off
for no other reason than that its point is one invariant. `MCServingParts.cfg` turns it off
because its parts end when their bounds are used up, as a stopped server does.

## Proofs

`ChainStore_proofs` proves, for every tree of blocks, every history, every reorg
limit and every bound:

- `TypeCorrect`, `HistoryIsExact`, `RowsStayInOrder`, `FilesAlwaysCoverTip`:
  `Spec => []TypeOK`, `[]HistoryExact`, `[]RowsInOrder`, `[]FilesCoverTip`;
- `TablesMatchTip`, `WindowCanBeUndone`: `[]UtxosMatchTip`, `[]UndoReady`;
- `StoresImplementDurableIndex`: `Spec => Refines`.

The theorems of `ChainStore_proofs` rest on `TreeAssumption`, `DataAssumption` and `BoundAssumption` of
`ChainStore`: blocks form a tree in which heights and tx counts grow along a chain
and chains are linearly ordered, and a block's history entries have tx numbers of
that block. TLC evaluates these on the checked instance.

The invariants are not inductive. The strengthening has five layers, each
inductive relative to those before it:

1. `TypeInv`: types, and what the control state says of the other variables
   (a process that is down holds nothing; during a backup there is nothing
   unflushed).
2. `MemInv`: the memory is a function of two tips. The unflushed blocks are
   `Chain[tip] \ Chain[dbTip]`, and headers, caches and history entries are
   theirs, phase by phase.
3. `HistInv`: rows above the UTXO DB's flush count are exactly those of the flush
   under way; rows are in order; what a restart recovers is the committed chain's,
   less `Missing`. Order is what makes the scan of `History.backup` remove the
   right entries, so order and content are proved together.
4. `FilesInv`: the files cover the DB's chain, and, in the phases of a flush, the
   part of the new chain already written. A file is overwritten only at heights
   above the DB's tip because the blocks written are descendants of it.
5. `UndoInv`: an unflushed block inside the window has its undo information in
   memory and no foreign raw block file at its height; the block being undone has
   its own record even when the window has moved past it. The daemon's height
   only grows, so that a window once passed never reaches down again. That a
   record at a height is the committed block's, and not that of an earlier branch,
   is the heart of `UtxosMatchTip`, and is proved with `UndoReady`.

Each action has its lemma; the refinement follows from the same lemmas, which say
by how much each action changes `Recovered`.

`ReorgControl_proofs` proves, for every tree of blocks, cache size, chunk size and
number of forced reorgs, `TypesHold`, `PrefetchStaysContiguous`, `ReorgsHaveCause`
and, when `ForksAreHigh`, `ReorgsAreExact`: `[]TypeOK`, `[]PrefetchContiguous`,
`[]NoSpuriousReorg`, `[]ReorgExact`. The invariant is that of `Spec` alone, without
`ForksAreHigh`, and has four layers:

1. `TypeInv`: types, and what each task's place says of what it holds: the
   semaphore is held where it is, the prefetcher asks only while the cache has
   room, a search for the fork belongs to a natural reorg.
2. `Contiguous`: queue, prefetched blocks and requested hashes follow one another
   by height. While a reorg is pending the queue no longer follows the tip, and
   `reset_height` restores that; this is why the property alone is not inductive.
3. `Branches`: every block held is one the daemon had, and on its branch unless the
   daemon has left it since the last natural reorg began (`switched`). A block that
   does not connect then has such a switch as its cause, and shows that there are two
   blocks of one height. `StartReorg` clears `switched` for a natural reorg, so that the
   next one needs a cause of its own; until that reorg is over, what the index and the
   prefetcher hold may still be of the branch the daemon left (`OnBranch`). `ResetAcquire`
   brings them back on the daemon's: it drops what was prefetched, and the tip is then an
   ancestor of the daemon's, because the search found the fork.
4. `Search` and `Undoing`: the windows of `_calc_reorg_range` are adjacent, each
   twice the one above, so that `start + 2 * window` stays one above the height of the tip,
   and what lies above the window is not shared. `ForksAreHigh` keeps a window from
   being cut off at block 0 before it meets the fork; only `ReorgsAreExact` assumes it,
   and the layer says for each fact whether it rests on it. When the daemon stays on its
   branch the answer is the fork, and what is undone so far lies above it. That the
   index is back on the daemon's branch afterwards needs no assumption: a search that
   misses the fork goes down to block 0, and then the undoing does not end.

`MempoolSync_proofs` proves, for every set of txs, every tree and every first
mempool, `TypesHold`, `MempoolHoldsNoDoubleSpend` and `SubscribersAreTold`:
`[]TypeOK`, `[]NoDoubleSpend`, `[]ToldUnlessMissed`. Its assumptions are that the
daemon's chains and first mempool spend no output twice (`ConsensusAssumption`):
whatever else enters its mempool does so by `Acceptable`. The layers:

1. `TypeInv`: types, and where the tips are: the DB's chain is a prefix of the
   tip's, the tip is no higher than the height last polled, a reorg stays above its fork.
2. `Reports`: a mempool report that waits is for a height that the DB has left
   behind, and then the report of the DB's height from the block processor is
   there. From this follows that the mempool's next report lets everything out.
3. `Disjoint`: the daemon's pool has no conflicts in itself or with its chain, and
   the server's txs are a part of one of its answers.
4. `Informed`: what a subscriber was last told is the present status, unless its address is in
   `Pending`: touched by something whose report is gathered, waits, or is missed. Unflushed blocks
   complicate it: their report may go out before the DB holds them, and `Announced`
   says that then they are reported again or counted as missed.

`UtxoUndo_proofs` proves, for every tree of blocks, every legal choice of their txs, any hash
prefixes and every schedule of advances, flushes, backups and crashes, `TypesAlways`,
`UtxosAlwaysExact`, `NeverStopsHolds`, `RefsAlwaysExact`, `MintsAlwaysExact` and
`LocsAlwaysExact`: `[]TypeOK`, `[]UtxosExact`, `[]NeverStops`, `[]RefsExact`, `[]MintsExact`,
`[]LocsExact`. A step of this module is a
loop over the txs of a block with loops over inputs and outputs inside, written as folds.
`StepFold` proves `FoldsAre`, that for any step there is a sequence of the values that a fold
goes through, and is instantiated for the six loops; `ChainTxs`, a recursive function on the
tree, is shown to satisfy its equation on trees of any size in the same way. The invariant, `Inv`:

1. `Stored`, `HashesThere`, `RefsStored`, `MintsStored`: the tables are those of the chain of
   the DB's tip, and the file of hashes has every tx number of it. From this, and because the
   outputs of a chain have different outpoints, the look-up by prefix, with the tx hash where
   rows collide, finds the row of the outpoint and no other.
2. `AllRecorded`: the DB has, at the height of each block of its chain, that block's undo
   record: the values of the block's inputs, in the order of its txs and inputs. A record that
   an earlier branch left at a height is replaced when the height is flushed again.
3. `Running`: with nothing unflushed the caches are empty. Otherwise the caches laid over the
   tables, less `db_deletes`, are the unspent outputs, refs and mints of the chain of the tip
   (`Advanced`), and `Branch` says that the unflushed blocks have their undo records and tx
   hashes in memory.
4. `Reverting`: between the backup of a block and its flush the caches over the tables are those of its
   parent (`BackedUp`), and what is deleted is what the block had added.

Inside a block the invariant is stated of a set of unspent outputs and a set of outputs made,
which grow and shrink by one output at a time. `UndoIs` says which values of the undo record are
left when the outputs and some of the inputs of a tx have been taken back; the order of
`_backup_txs`, txs and inputs from last to first, is what makes the last value that of the input
at hand. That undoing a tx may delete its mints from `rm` rests on `LegalAssumption`:
a ref is minted by the tx that spends its outpoint, and only one tx of a chain spends it.

For locations `LocsInv` is added, of every ref outside `blurred` and `Mixed`: the table has a ref
if a tx of the DB's chain moves it, with the last of these (`Placed`); so has what a flush would
leave, for the chain of the tip (`LocsAhead`); and the undo record of a block, in memory
(`LocsNoted`) and in the DB (`AllLocsRecorded`), has the last move before the block for each ref that
the block moves. A record is taken from the DB when the block is advanced and the DB is behind the
block by then: it is right because a ref outside `blurred` was not moved in between, which is where
`blurred` comes into the argument. `RefAssumption` shows that a ref does not move before the tx that mints it.

`OverlayIndexes_proofs` proves, for every tree of blocks, whatever their txs spend and advertise,
`TablesAlwaysAgree` and `BookAlwaysFollows`: `Spec => []TablesAgree` and
`Spec => []BookFollowsChain`. It assumes of the constants what a chain and its parsing give: blocks
are reached from the first by one block at a time, the txs of a block and the
advertisements of a tx come in an order, nothing is advertised up to the first tip
(`BlocksAssumption`, `FeedAssumption`). The argument starts from `BackupUndoesFlush`: for every table
and every set of written and deleted keys, if all of these are recorded under one height, undoing
that height right after the flush gives the table as it was, the deleted rows included. A flush of
several blocks satisfies the premise key by key unless a key changed at two of them: then the
whole change is recorded under the later height, which is what makes `blurred` necessary and finding 5
possible. The invariant, `BookInv`:

1. `ChainsFit`: the DB's chain is a beginning of the tip's, and no shorter than the highest
   DB tip less the reorg limit.
2. `CacheFollows`: the cached orders over the table, up to any height between the two tips, are the
   book of the chain up to that height, and each is noted at a height of an unflushed block.
3. `RecordsFit`: undo records belong to heights of the DB's chain and hold rows of orders with
   the keys of their lists.
4. `Tables`: for each height that backups may still reach there is a table of which the
   three kinds of rows agree (`Sound`) and whose open orders are the book of the chain up to there;
   that of the DB's height is the DB's, and the undo record of a height leads from its table to the one
   below. A table that a backup would reach is not a state of the system; that one exists for every height
   at once is what makes the invariant hold over any number of reorgs, whatever flushes made the records.

The book of a chain is a function over heights of functions over txs and advertisements;
`StepFold` and `BlockIs` take it apart.

`ServingParts_proofs` proves, for every set of addresses, every height and any number of
reorganisations and requests, `AnswersAlwaysFollow`:
`ReadsInit /\ [][ReadsNext]_readVars => []AnswersFollowRows`, and takes it to
the specification that the run checks (`ReadsFollowRows`: `Spec => []ReadsHold`). The layers:

1. `Stores`: the history's rows are ahead of the UTXO rows only within a write, both are the
   first blocks of the chain, or one block more while that one is undone, and what an unflushed
   block touched is gathered or has been dropped.
2. `Tasks`: each coroutine awaits the read that its place in a notification or a request says,
   and a caller of `Notifications` is in one notification at a time.
3. `Answers`: what a thread has read is what the rows say as long as nothing was written since,
   even if some of the hashes came from the cache of an earlier read; a block's tx is
   remembered only by a job that no reorganisation has come between.
4. `Informed`: what the session manager remembers of an address, and what a client was told of
   it, is the rows' answer unless it has lapsed or a touched set with the address is on its way
   (`Due`, `DueToClients`). The two differ: between the undoing of a block and the moment when the
   session manager hears of it, a report about an undone block still counts for what it
   remembers; for what a client was told such a report counts for as long as it waits.

The same module proves, for every number of addresses, every size of a row and every choice of what
txs touch, `HistoryAlwaysKept`: `CompactionInit /\ [][CompactionNext]_compactionVars => []HistoryKept`,
and `CompactionKeepsHistory`: `Spec => []CompactionHolds`. It assumes of the constants
that addresses are numbered in the order of their prefixes and that a row has room for an entry
(`CompactionAssumption`). `RowsHold(r, N)` says of an address's rows that none is empty, that the numbers
ascend in each row and from row to row in the order of the keys, and that they are the numbers
`N`; two ascending sequences of the same numbers are equal (`RisingEqual`), so that the order of the
rows alone gives the history. It is proved of what each operation makes of rows: `CompactedIs` (a
compaction keeps the numbers), `BackedUpAre` (a backup keeps those below the count), `NewRowIs`. The
invariant, `CompactionInv`:

1. `Up`: while a process runs, an address's rows hold the flushed txs; `Serving`: the keys are no higher
   than the server's flush count, which is no higher than the UTXO DB's - a finished compaction
   leaves it lower, so the count alone does not say which of the two DBs is ahead.
2. `Flushed`: between the commits of a flush, the rows below its key hold the saved history. With the
   count just past the UTXO DB's, deleting what is above the latter therefore undoes the flush.
3. `Down`: while nothing runs, what opening would leave of the rows (`Opened`) holds the saved history,
   and the count it takes is past all keys.
4. `Compacting`: the addresses below the cursor are compact, with keys up to the script's own count,
   and those from it on are as the server left them; a cursor on disk describes the rows on disk; and a
   history DB whose count is below the UTXO DB's is compact throughout. It is what a later
   run of the script, and a server that cancels one, start from.

The three kills that `trouble` names end the argument where they happen: for each of them the rows
that opening leaves may not be the saved history, or the count not be past their keys.

The module's third part is the mempool's tokens, for every finite set of txs, every set of
sessions and keys, and every cap: `PoolViewsAlwaysFollow`,
`PoolInit /\ [][PoolNext]_poolVars => []PoolViewsFollow`, and `PoolIsSeen`: `Spec => []PoolHolds`.
`PoolAssumption` says that a tx spends outputs of other txs, that outputs have natural values,
and that the first block could stand in a chain. The invariant, `PoolInv`, has a part for each view:

1. `Subscriptions`: a session is under a key in the one map when the key is under the session in the
   other, and no key is left without sessions. The end of a session leaves key after key (`LeftAll`).
2. `BookInv`: for all ids but the doubled ones, each of the book's four maps shows the
   advertisements of the mempool's txs and no others (`BookShows`), whatever order txs come and go in.
3. `ChainInv` and `IndexInv`: the blocks up to any height may stand in one chain; and what the index has of
   a tx is, of every pair that the tx does not move unseen, one movement for each output it adds and
   each it spends. `BalanceIs` says that a balance is what came in less what went out, so
   that sums over disjoint sets of outputs (`ValuesAdd`, `TotalUnion`) add up to the balance of chain
   and mempool together (`BalanceParts`, `IndexSumIs`).
4. `ToldInv`: what a subscriber was told is today's answer, or it is `Pending`: the pair is touched, is
   about to be pushed, was moved by a block unheard, or is `Confirming` - a block has moved it by a tx that
   the index still has, and the refresh that drops the tx touches it. Without this
   fourth case the invariant is not inductive: a block changes the answer, and nothing has been
   touched yet.

Sums are folds over finite sets, which the library defines by recursion on sets. `SumsExist`
and `TotalUnion` take them apart by the cardinality of the set.

The library's induction theorems take an operator as a parameter, which the installed
provers cannot instantiate. Where a proof needs induction on a natural number - the
lowest height at which two chains part, the highest common report - it uses
`LeastElement` of `NaturalSets`, that a nonempty set of naturals has a least element, which
follows from the well-founded minimum of the library at the order of the naturals.

Only model-checked: the invariants of OverlayIndexes about tokens, queries and the miners' list
and those of ServiceIndexes (folds over txs too, over tables of
many kinds, with history variables for each exception), and of ServingParts `ProofsHold`
(the trees of hashes are recursive functions on data).
Liveness (`Converges`, `Settles`) is out of the prover's reach.

## What the checks found

1. A kill between `History.backup` and the UTXO batch of `flush_backup` leaves a
   block in the index whose history is gone, and a restart does not repair it
   (`HistoryComplete`). `docs/HOWTO.rst` promises that the worst case is to index
   again from the last flush. `HistoryExact` states, and the proof establishes,
   that this is the only loss.
2. The location of a singleton before a block is taken from the DB when the block
   is advanced and not from the cache, so a reorg restores an older location, or
   none, when the earlier move was not flushed yet (`LocsRestored`).
3. A reorg request accepted during a reorg is dropped when that reorg ends
   (`QueuedReorgRuns`).
4. A refresh of the mempool that ends after the next block was reported leaves its
   addresses under the lower height; the next report deletes them. A tx that
   arrived just before a block and is not in it is then never reported to its
   subscribers (`AllTold`). `ToldUnlessMissed` states that these, and reports for a
   batch that was not flushed, are the only ones lost.
5. An order that was opened and closed between two flushes has no row before the
   flush, so that a reorg of its closing removes it instead of opening it
   (`ReorgReopens`); the comment at `swap_index.py:462` says that closed orders are
   opened by the undo.

Also met, and stated by a property only as an exception or not at all:

- Following the daemon: `_calc_reorg_range` never compares the window that reaches
  height 0, so a fork within it ends in the assertion that block 0 is never undone; only a
  chain of a few blocks can meet it.
- Orders: one advertised again at another price leaves its first key in the pair's book for
  ever. The check of a backing reads only what is flushed, so two servers that flush at
  different heights may disagree on an order over a fresh outpoint (`swap_index.py:553`,
  which asks for the opposite).
- Locations: undoing a tx deletes the location of normal refs of its outputs too, and nothing restores
  it; a ref that was a singleton and is carried as a normal ref later loses its location in a
  reorg of the latter (`Mixed`).
- Tokens: a token or balance changed at two heights of one flush has one undo, under the
  later height for tokens and under the flushed height for a balance emptied before the
  last block, so undoing the last block alone brings back an old row, or a balance that is
  gone. `get_balance` ignores the balances that wait to be deleted. A client's
  `record_key_reveal` for a flushed height replaces that block's undo record; the RPC for
  it calls a method that does not exist, so that only the REST route gets there. The rows
  by type and by name of a token revealed again stay; rows by ticker are written and never
  read; statistics are not uncounted by a reorg. A deployment whose ref is in two outputs
  is counted as a mint too, whose event overwrites that of the deployment.
- Miners' list: the key of the memoized summaries does not change when a reorg changes the
  list twice at one height; a value that a reorg takes back to 0 and a new deployment height of a
  listed token are not synced; an empty index deactivates nothing;
  `get_contract`, `get_contracts_by_algorithm` and `get_most_profitable` ignore the denylist;
  after a kill between commit and sync the file is stale until the next sync.
- Names: a later registration of a name overwrites its entry in the tree; hot names do not follow
  a change of owner or an undone block, and lack the fields of duplicates;
  `env.glyph_index` is a flag, so that duplicates are never marked in the token index;
  filled-in names have no owner and no singleton, so they are never updated.
- Realms and listings: the count of realms adds cache and DB, and so counts a
  realm in both twice; a listing opened and closed in one flush is lost when the closing is undone.
- Analytics: `_get_balance` ignores balances that wait to be deleted, so an address that spent all
  it had and is paid again before the flush gets its old balance added; an address that spends
  in a block what it received in it is clamped at 0 first. The backfill's comments that it is
  safe beside flushes and may be resumed are not so: a flush between two chunks is
  overwritten with the sums of before, and a resumed scan has lost the sums of its first part.
  Blocks advanced before the first backfill set `last_processed_height`, so that it may be
  skipped.
- Caches: `touched` is dropped after a batch that is not flushed, so that cached balances and
  UTXO lists stay stale until their addresses are touched again; a thread that reads within a flush
  caches a tx number as unknown, and requests for its addresses then read again for ever,
  until a reorg; an answer read before a flush is cached after it; after a reorg to the same
  height histories and statuses are kept, and a report that waits for that height is replaced,
  so that what only it touched is not told; a report that goes out before its block is flushed
  leaves the statuses read until then; `raw_header` in `_refresh_hsub_results` raises
  when the block is undone meanwhile, which ends the caller's task.
- Header proofs: when a shorter `_extend_to` ends after a longer one, while a third request
  extends the cache from the longer one's end, or when a truncation comes during one, the
  segments that the last to end writes are spliced in at the wrong place, and `level` stays
  wrong; a proof built then fails or is wrong. A request overtaken by a shorter extension
  alone may fail.
- Compaction: a kill after the last pass and before the UTXO DB's flush count is set, followed by
  a kill between the two batches of a later flush, leaves rows that `clear_excess` does not
  see. An interrupted compaction that has numbered rows past the flush count loses
  them to `clear_excess` or to the next flush, though the script "can be interrupted and
  restarted harmlessly".
- Mempool tokens: chained unconfirmed transfers are not debited, nor are melts into outputs
  without refs; tokens not confirmed yet are not credited; when two txs advertise the
  same order, removing one takes the other's order and the first one's keys stay; a
  confirmed balance moved by a block of which no tx was indexed is not pushed;
  `touched_refs` and `touched_scripthashes` are drained only by a REST request.

## Not modelled

- Parsing of blocks, scripts and payloads; hashing; formatting of answers; logging,
  metrics.
- Database upgrades and schema rebuilds (they run once), `LogicalFile`'s split into parts.
- Cancellation: a clean shutdown is a flush and a stop, both of which are modelled.
- `DaemonError` and the daemon client's failover: the client retries connection errors by
  itself; an error reply stops the process, which for the stores is `Crash`.
- The rate limiter (buckets over wall-clock time), peer discovery, the REST and Glyph APIs
  around the queries, `market_index.py`, which nothing imports, and the
  subscription notices other than balances, which nothing calls.
- Code script hashes, refs of unconfirmed outputs, merkle branches of txs.
- A daemon that adopts a branch that is not higher: it happens on an operator's
  command or when difficulty changes within a branch; the index then waits for the
  next block.

## Plan

1. Proofs: for the overlay indexes `RowsAgree`, on the pattern of `TablesAlwaysAgree`, and
   balances, on the lemmas about sums of `ServingParts_proofs`.
2. A mapping from ReorgControl's tip to `DurableIndex`.
3. Swap queries: expiry and histories as a function of the chain.
4. The daemon client with several URLs; the rate limiter.
