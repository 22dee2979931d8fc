----------------------------- MODULE ChainStore -----------------------------
(***************************************************************************)
(* How RXinDexer keeps the chain on disk: the block processor's unflushed  *)
(* state, the flat files under meta/, the history DB and the UTXO DB, with *)
(* the order in which a flush and a reorg's backup flush write them, a     *)
(* kill of the process between any two writes, and the cleaning done when  *)
(* the databases are opened again.                                         *)
(*   electrumx/server/block_processor.py, db.py, history.py                *)
(*                                                                         *)
(* A block is a value of Blocks. What it holds is abstracted to the        *)
(* history entries it adds (Touches: which hashX each of its txs touches)  *)
(* and to its place in the tree. The UTXO tables are represented by the    *)
(* set of blocks whose changes they hold; that undoing a block's changes   *)
(* with its undo record restores them exactly is the subject of UtxoUndo.  *)
(***************************************************************************)
EXTENDS Integers, FiniteSets

CONSTANTS
  Blocks,       \* every block of every branch the daemon may serve
  NoBlock,      \* the tip of an empty index (height -1)
  HashXs,       \* script hash prefixes, the keys of the history
  Parent,       \* block -> its prevhash
  Height,       \* block -> height, -1 for NoBlock
  TxCount,      \* block -> number of txs from genesis up to and including it
  Chain,        \* block -> the blocks from genesis up to and including it
  Touches,      \* block -> the <<hashX, tx_num>> pairs of its history
  ReorgLimit,   \* env.reorg_limit
  MaxHeight,    \* bound: heights of Blocks and of the daemon
  MaxTxCount,   \* bound: txs in the longest chain
  MaxFlushes    \* bound: history flush ids

Tips == Blocks \cup {NoBlock}

(***************************************************************************)
(* Blocks form a tree rooted at NoBlock: Height, TxCount and Chain are the *)
(* functions of the tree their names say, stated by how a child's value    *)
(* follows from its parent's, with the facts that follow by induction: a   *)
(* chain is closed under ancestors and linearly ordered, and both Height   *)
(* and TxCount grow along it.                                              *)
(***************************************************************************)
ASSUME TreeAssumption ==
  /\ NoBlock \notin Blocks
  /\ Parent \in [Blocks -> Tips]
  /\ Height \in [Tips -> Int]
  /\ TxCount \in [Tips -> Nat]
  /\ Chain \in [Tips -> SUBSET Blocks]
  /\ Height[NoBlock] = -1 /\ TxCount[NoBlock] = 0 /\ Chain[NoBlock] = {}
  /\ \A b \in Blocks :
       /\ Height[b] = Height[Parent[b]] + 1
       /\ Height[b] \in 0..MaxHeight
       /\ TxCount[b] > TxCount[Parent[b]]       \* a coinbase at least
       /\ TxCount[b] <= MaxTxCount
       /\ Chain[b] = Chain[Parent[b]] \cup {b}
  /\ \A b \in Blocks : \A c \in Chain[b] :
       /\ Chain[c] \subseteq Chain[b]
       /\ TxCount[c] <= TxCount[b]
       /\ c # b => Height[c] < Height[b]
  /\ \A b \in Blocks : \A c, d \in Chain[b] : c \in Chain[d] \/ d \in Chain[c]

ASSUME DataAssumption ==
  /\ Touches \in [Blocks -> SUBSET (HashXs \X Nat)]
  /\ \A b \in Blocks : \A e \in Touches[b] :
       TxCount[Parent[b]] <= e[2] /\ e[2] < TxCount[b]

ASSUME BoundAssumption ==
  /\ ReorgLimit \in Nat \ {0}
  /\ MaxHeight \in Nat
  /\ MaxTxCount \in Nat
  /\ MaxFlushes \in Nat

VARIABLES
  pc,             \* what the process is doing
  \* memory of the block processor
  tip,            \* bp.tip, with bp.height and bp.tx_count
  backups,        \* blocks a running reorg still has to back up
  headers,        \* bp.headers and bp.tx_hashes: blocks not yet in the files
  utxoCache,      \* blocks whose UTXO changes are only in bp's caches
  undoInfos,      \* blocks whose undo info waits in bp.undo_infos
  unflushed,      \* history.unflushed: <<hashX, tx_num>> pairs
  touched,        \* bp.touched
  \* the files under meta/, written outside any transaction
  headersFile, txCountsFile, hashesFile, rawBlocks,
  \* the history DB: rows <<hashX, flush id, tx_num>> and its flush_count
  hist, histFlushCount,
  \* the UTXO DB: tables, undo records and the b'state' entry
  utxos, undo, dbTip, utxoFlushCount,
  \* the outside world
  daemonHeight,   \* daemon.cached_height()
  \* history variables, read by properties only
  lost,           \* committed blocks whose history a kill has removed
  pastLimit       \* a reorg reached below the undo window

memory == <<tip, backups, headers, utxoCache, undoInfos, unflushed, touched>>
files == <<headersFile, txCountsFile, hashesFile, rawBlocks>>
histDB == <<hist, histFlushCount>>
utxoDB == <<utxos, undo, dbTip, utxoFlushCount>>
ghosts == <<lost, pastLimit>>
vars == <<pc, memory, files, histDB, utxoDB, daemonHeight, ghosts>>

Phases == {"down", "opening", "run",
           "flush_txcounts", "flush_hashes", "flush_history", "flush_utxos",
           "backup", "backup_history", "backup_utxos"}

TypeOK ==
  /\ pc \in Phases
  /\ tip \in Tips
  /\ backups \in Nat
  /\ headers \subseteq Blocks /\ utxoCache \subseteq Blocks
  /\ undoInfos \subseteq Blocks
  /\ unflushed \subseteq HashXs \X Nat
  /\ touched \subseteq HashXs
  /\ headersFile \in [0..MaxHeight -> Tips]
  /\ txCountsFile \in [0..MaxHeight -> Nat]
  /\ hashesFile \in [0..MaxTxCount-1 -> Tips]
  /\ rawBlocks \in [0..MaxHeight -> Tips]
  /\ hist \subseteq HashXs \X Nat \X Nat
  /\ histFlushCount \in 0..MaxFlushes /\ utxoFlushCount \in 0..MaxFlushes
  /\ utxos \subseteq Blocks
  /\ undo \in [0..MaxHeight -> Tips]
  /\ dbTip \in Tips
  /\ daemonHeight \in 0..MaxHeight
  /\ lost \subseteq Blocks
  /\ pastLimit \in BOOLEAN

----------------------------------------------------------------------------
(* Pure helpers *)

\* DB.min_undo_height: the lowest height whose undo info is kept
min_undo_height(height) == height - ReorgLimit + 1

\* history entries of a set of blocks
Entries(S) == UNION {Touches[b] : b \in S}

\* the tx numbers a block's transactions take
TxNums(b) == TxCount[Parent[b]] .. TxCount[b] - 1

\* what a table indexed by height holds after the blocks of S are written
WithBlocks(table, S) ==
  [h \in DOMAIN table |->
     IF \E b \in S : Height[b] = h THEN CHOOSE b \in S : Height[b] = h
                                   ELSE table[h]]

\* mutant: the first tx number to go is kept
BackedUp_off_by_one(xs, tx_count) ==
  {r \in hist :
     \/ r[1] \notin xs
     \/ r[3] <= tx_count
     \/ \E s \in hist : s[1] = r[1] /\ s[2] > r[2] /\ s[3] <= tx_count}

\* History.backup on the rows of the hashXs xs: each hashX's rows are read
\* from the newest; a row left empty is deleted, and the scan stops at the
\* first row that still holds an entry below tx_count, which is cut to those
\* entries. An older row is not read: an entry of it survives whatever it is.
BackedUp(xs, tx_count) ==
  {r \in hist :
     \/ r[1] \notin xs
     \/ r[3] < tx_count
     \/ \E s \in hist : s[1] = r[1] /\ s[2] > r[2] /\ s[3] < tx_count}

\* hashXs a block's txs touch
HashXsOf(b) == {e[1] : e \in Touches[b]}

\* a process that is not running holds nothing in memory
Forget ==
  /\ tip' = NoBlock /\ backups' = 0
  /\ headers' = {} /\ utxoCache' = {} /\ undoInfos' = {}
  /\ unflushed' = {} /\ touched' = {}

----------------------------------------------------------------------------
Init ==
  /\ pc = "down"
  /\ tip = NoBlock /\ backups = 0
  /\ headers = {} /\ utxoCache = {} /\ undoInfos = {}
  /\ unflushed = {} /\ touched = {}
  /\ headersFile = [h \in 0..MaxHeight |-> NoBlock]
  /\ txCountsFile = [h \in 0..MaxHeight |-> 0]
  /\ hashesFile = [n \in 0..MaxTxCount-1 |-> NoBlock]
  /\ rawBlocks = [h \in 0..MaxHeight |-> NoBlock]
  /\ hist = {} /\ histFlushCount = 0
  /\ utxos = {} /\ undo = [h \in 0..MaxHeight |-> NoBlock]
  /\ dbTip = NoBlock /\ utxoFlushCount = 0
  /\ daemonHeight = 0
  /\ lost = {} /\ pastLimit = FALSE

----------------------------------------------------------------------------
(* Opening the databases *)

\* mutant: the flush count is reset, the excess rows are left
clear_excess_keeps_rows ==
  /\ histFlushCount' = IF histFlushCount <= utxoFlushCount THEN histFlushCount
                                                          ELSE utxoFlushCount
  /\ UNCHANGED hist

\* DB._open_dbs up to History.open_db: the UTXO state is read, and
\* History.clear_excess drops the rows of flushes the UTXO DB never saw.
clear_excess ==
  IF histFlushCount <= utxoFlushCount
    THEN UNCHANGED histDB
    ELSE /\ hist' = {r \in hist : r[2] <= utxoFlushCount}
         /\ histFlushCount' = utxoFlushCount

OpenHistory ==
  /\ pc = "down"
  /\ clear_excess
  /\ pc' = "opening"
  /\ UNCHANGED <<memory, files, utxoDB, daemonHeight, ghosts>>

\* mutant: the lowest height in the window is cleared too
clear_excess_undo_info_off_by_one(table) ==
  [h \in DOMAIN table |->
     IF h <= min_undo_height(Height[dbTip]) THEN NoBlock ELSE table[h]]

\* The rest of _open_dbs: clear_excess_undo_info drops the undo records and
\* raw block files below the window of the DB's own height, _read_tx_counts
\* asserts that the last count in the file is the DB's, and
\* _first_open_dbs takes the DB's tip for the block processor.
clear_excess_undo_info(table) ==
  [h \in DOMAIN table |->
     IF h < min_undo_height(Height[dbTip]) THEN NoBlock ELSE table[h]]

FinishOpen ==
  /\ pc = "opening"
  /\ dbTip # NoBlock => txCountsFile[Height[dbTip]] = TxCount[dbTip]
  /\ undo' = clear_excess_undo_info(undo)
  /\ rawBlocks' = clear_excess_undo_info(rawBlocks)
  /\ tip' = dbTip
  /\ pc' = "run"
  /\ UNCHANGED <<backups, headers, utxoCache, undoInfos, unflushed, touched,
                 headersFile, txCountsFile, hashesFile, histDB,
                 utxos, dbTip, utxoFlushCount, daemonHeight, ghosts>>

----------------------------------------------------------------------------
(* Advancing *)

\* DB.write_raw_block: the block's file, and the removal of the one file
\* that has just left the window
write_raw_block(b) ==
  rawBlocks' = [h \in DOMAIN rawBlocks |->
                  IF h = Height[b] THEN b
                  ELSE IF h = min_undo_height(Height[b]) - 1 THEN NoBlock
                  ELSE rawBlocks[h]]

\* _advance_block and advance_txs: block b connects to the tip. Its undo
\* info and raw block are kept only if it is within reorg_limit of the
\* daemon's height.
Advance(b) ==
  LET kept == Height[b] >= min_undo_height(daemonHeight) IN
  /\ pc = "run"
  /\ Parent[b] = tip
  /\ Height[b] <= daemonHeight
  /\ tip' = b
  /\ headers' = headers \cup {b}
  /\ utxoCache' = utxoCache \cup {b}
  /\ unflushed' = unflushed \cup Touches[b]
  /\ touched' = touched \cup HashXsOf(b)
  /\ undoInfos' = IF kept THEN undoInfos \cup {b} ELSE undoInfos
  /\ IF kept THEN write_raw_block(b) ELSE UNCHANGED rawBlocks
  /\ UNCHANGED <<pc, backups, headersFile, txCountsFile, hashesFile, histDB,
                 utxoDB, daemonHeight, ghosts>>

\* the end of _advance_blocks: touched goes to the notifications
EndBatch ==
  /\ pc = "run"
  /\ touched' = {}
  /\ UNCHANGED <<pc, tip, backups, headers, utxoCache, undoInfos, unflushed,
                 files, histDB, utxoDB, daemonHeight, ghosts>>

DaemonGrows ==
  /\ daemonHeight < MaxHeight
  /\ daemonHeight' = daemonHeight + 1
  /\ UNCHANGED <<pc, memory, files, histDB, utxoDB, ghosts>>

----------------------------------------------------------------------------
(* Flushing: DB.flush_dbs, store by store. The block processor flushes when
   it has caught up, when its caches are full, before a reorg and on a clean
   shutdown; always with flush_utxos true, so fs_height is db_height. *)

\* mutant: the state of the UTXO DB is written before the files
FlushHeaders_state_first ==
  /\ pc = "run"
  /\ tip # dbTip
  /\ histFlushCount < MaxFlushes
  /\ headersFile' = WithBlocks(headersFile, headers)
  /\ dbTip' = tip
  /\ pc' = "flush_txcounts"
  /\ UNCHANGED <<memory, txCountsFile, hashesFile, rawBlocks, histDB, utxos,
                 undo, utxoFlushCount, daemonHeight, ghosts>>

\* flush_fs returns early (flush_dbs asserts) when nothing is unflushed
FlushHeaders ==
  /\ pc = "run"
  /\ tip # dbTip
  /\ histFlushCount < MaxFlushes
  /\ headersFile' = WithBlocks(headersFile, headers)
  /\ pc' = "flush_txcounts"
  /\ UNCHANGED <<memory, txCountsFile, hashesFile, rawBlocks, histDB, utxoDB,
                 daemonHeight, ghosts>>

FlushTxCounts ==
  /\ pc = "flush_txcounts"
  /\ txCountsFile' = [h \in 0..MaxHeight |->
                        IF \E b \in headers : Height[b] = h
                          THEN TxCount[CHOOSE b \in headers : Height[b] = h]
                          ELSE txCountsFile[h]]
  /\ pc' = "flush_hashes"
  /\ UNCHANGED <<memory, headersFile, hashesFile, rawBlocks, histDB, utxoDB,
                 daemonHeight, ghosts>>

FlushHashes ==
  /\ pc = "flush_hashes"
  /\ hashesFile' = [n \in 0..MaxTxCount-1 |->
                      IF \E b \in headers : n \in TxNums(b)
                        THEN CHOOSE b \in headers : n \in TxNums(b)
                        ELSE hashesFile[n]]
  /\ headers' = {}
  /\ pc' = "flush_history"
  /\ UNCHANGED <<tip, backups, utxoCache, undoInfos, unflushed, touched,
                 headersFile, txCountsFile, rawBlocks, histDB, utxoDB,
                 daemonHeight, ghosts>>

\* History.flush: one row per hashX under a new flush id, in its own batch.
\* A row already stored under that key would be replaced.
FlushHistory ==
  LET id == histFlushCount + 1 IN
  /\ pc = "flush_history"
  /\ hist' = {r \in hist : ~(r[2] = id /\ \E e \in unflushed : e[1] = r[1])}
             \cup {<<e[1], id, e[2]>> : e \in unflushed}
  /\ histFlushCount' = id
  /\ unflushed' = {}
  /\ pc' = "flush_utxos"
  /\ UNCHANGED <<tip, backups, headers, utxoCache, undoInfos, touched, files,
                 utxoDB, daemonHeight, ghosts>>

\* mutant: the adds are flushed but not cleared
FlushUtxos_keeps_cache ==
  /\ pc = "flush_utxos"
  /\ utxos' = utxos \cup utxoCache
  /\ undo' = WithBlocks(undo, undoInfos)
  /\ dbTip' = tip
  /\ utxoFlushCount' = histFlushCount
  /\ undoInfos' = {}
  /\ pc' = "run"
  /\ UNCHANGED <<tip, backups, headers, utxoCache, unflushed, touched, files,
                 histDB, daemonHeight, ghosts>>

\* mutant: the state is written with the flush count before this flush
FlushUtxos_old_flush_count ==
  /\ pc = "flush_utxos"
  /\ utxos' = utxos \cup utxoCache
  /\ undo' = WithBlocks(undo, undoInfos)
  /\ dbTip' = tip
  /\ utxoCache' = {} /\ undoInfos' = {}
  /\ pc' = "run"
  /\ UNCHANGED <<tip, backups, headers, unflushed, touched, files, histDB,
                 utxoFlushCount, daemonHeight, ghosts>>

\* the UTXO batch: the tables, the undo records, every overlay index and the
\* state entry commit together
FlushUtxos ==
  /\ pc = "flush_utxos"
  /\ utxos' = utxos \cup utxoCache
  /\ undo' = WithBlocks(undo, undoInfos)
  /\ dbTip' = tip
  /\ utxoFlushCount' = histFlushCount
  /\ utxoCache' = {} /\ undoInfos' = {}
  /\ pc' = "run"
  /\ UNCHANGED <<tip, backups, headers, unflushed, touched, files, histDB,
                 daemonHeight, ghosts>>

----------------------------------------------------------------------------
(* Backing up: _reorg_chain, one block at a time *)

\* flush(True) has run; n is _calc_reorg_range's count, of a natural or a
\* forced reorg. The genesis block is never backed up.
StartReorg(n) ==
  /\ pc = "run"
  /\ tip = dbTip
  /\ n \in 1..Height[tip]
  /\ backups' = n
  /\ pc' = "backup"
  /\ UNCHANGED <<tip, headers, utxoCache, undoInfos, unflushed, touched, files,
                 histDB, utxoDB, daemonHeight, ghosts>>

\* _backup_block: the raw block is read from its file, or from the daemon by
\* hash when there is no file, and must be the tip; its undo info must exist
BackupBlock ==
  /\ pc = "backup"
  /\ rawBlocks[Height[tip]] \in {NoBlock, tip}
  /\ undo[Height[tip]] # NoBlock
  /\ tip' = Parent[tip]
  /\ touched' = touched \cup HashXsOf(tip)
  /\ pastLimit' = (pastLimit \/ Height[tip] < min_undo_height(daemonHeight))
  /\ pc' = "backup_history"
  /\ UNCHANGED <<backups, headers, utxoCache, undoInfos, unflushed, files,
                 histDB, utxoDB, daemonHeight, lost>>

\* the ChainErrors of _backup_block and _backup_txs, or its final assert when
\* the undo info is another block's: the exception ends the process
BackupFails ==
  /\ pc = "backup"
  /\ \/ rawBlocks[Height[tip]] \notin {NoBlock, tip}
     \/ undo[Height[tip]] # tip
  /\ pc' = "down"
  /\ Forget
  /\ UNCHANGED <<files, histDB, utxoDB, daemonHeight, ghosts>>

\* flush_backup up to History.backup, a batch of the history DB of its own
BackupHistory ==
  /\ pc = "backup_history"
  /\ histFlushCount < MaxFlushes
  /\ hist' = BackedUp(touched, TxCount[tip])
  /\ histFlushCount' = histFlushCount + 1
  /\ pc' = "backup_utxos"
  /\ UNCHANGED <<memory, files, utxoDB, daemonHeight, ghosts>>

\* mutant: one block too many is backed up
BackupUtxos_off_by_one ==
  /\ pc = "backup_utxos"
  /\ utxos' = utxos \ {dbTip}
  /\ dbTip' = tip
  /\ utxoFlushCount' = histFlushCount
  /\ lost' = lost \ {dbTip}
  /\ backups' = backups - 1
  /\ pc' = IF backups = 0 THEN "run" ELSE "backup"
  /\ UNCHANGED <<tip, headers, utxoCache, undoInfos, unflushed, touched, files,
                 histDB, undo, daemonHeight, pastLimit>>

\* the UTXO batch of flush_backup. Undo info of another block would take this
\* block's outputs away and give back that block's inputs.
BackupUtxos ==
  LET undone == undo[Height[dbTip]] IN
  /\ pc = "backup_utxos"
  /\ utxos' = (utxos \ {dbTip}) \cup (IF undone = dbTip THEN {} ELSE {undone})
  /\ dbTip' = tip
  /\ utxoFlushCount' = histFlushCount
  /\ lost' = lost \ {dbTip}
  /\ backups' = backups - 1
  /\ pc' = IF backups = 1 THEN "run" ELSE "backup"
  /\ UNCHANGED <<tip, headers, utxoCache, undoInfos, unflushed, touched, files,
                 histDB, undo, daemonHeight, pastLimit>>

----------------------------------------------------------------------------
(* The process is killed, or an exception ends it: no flush. A clean
   shutdown is a flush and then this. *)
Crash ==
  /\ pc # "down"
  /\ pc' = "down"
  /\ Forget
  /\ lost' = IF pc = "backup_utxos" THEN lost \cup {dbTip} ELSE lost
  /\ UNCHANGED <<files, histDB, utxoDB, daemonHeight, pastLimit>>

Next ==
  \/ OpenHistory \/ FinishOpen
  \/ \E b \in Blocks : Advance(b)
  \/ EndBatch \/ DaemonGrows
  \/ FlushHeaders \/ FlushTxCounts \/ FlushHashes \/ FlushHistory \/ FlushUtxos
  \/ \E n \in 1..MaxHeight : StartReorg(n)
  \/ BackupBlock \/ BackupFails \/ BackupHistory \/ BackupUtxos
  \/ Crash

Spec == Init /\ [][Next]_vars

----------------------------------------------------------------------------
(* Properties *)

\* the history a process opened now would serve: History.clear_excess drops
\* the rows of later flushes
Recovered == {<<r[1], r[3]>> : r \in {s \in hist : s[2] <= utxoFlushCount}}

\* blocks of the committed chain whose history is gone
Missing == lost \cup (IF pc = "backup_utxos" THEN {dbTip} ELSE {})

\* After a kill at any moment, the history that a restart recovers holds
\* every entry of the committed chain and no entry of an abandoned branch or
\* an unfinished flush, but for the block whose backup the kill cut in two:
\* History.flush and History.backup (history.py 140-189) commit apart from
\* the UTXO DB, and clear_excess must tell what belongs.
HistoryExact == Recovered = Entries(Chain[dbTip] \ Missing)

\* The rows of a hashX hold ascending tx numbers under ascending flush ids,
\* and no row has an id still to be given out, through reuse of ids after
\* clear_excess and of tx numbers after a reorg. History.get_txnums returns
\* rows in key order, and the scan of History.backup stops on that order.
RowsInOrder ==
  \A r \in hist :
    /\ r[2] <= histFlushCount
    /\ \A s \in hist : r[1] = s[1] /\ r[2] < s[2] => r[3] < s[3]

\* The flat files describe the committed chain at every height and tx number
\* up to the DB's, though they are overwritten in place by another branch,
\* outside any transaction and before the DB commits (flush_fs's docstring,
\* db.py 294-299: "in a crash we just pick up again from the height stored
\* in the DB"). It is also what _read_tx_counts asserts on opening.
FilesCoverTip ==
  \A b \in Chain[dbTip] :
    /\ headersFile[Height[b]] = b
    /\ txCountsFile[Height[b]] = TxCount[b]
    /\ \A n \in TxNums(b) : hashesFile[n] = b

\* As long as no reorg went below the undo window, the UTXO tables hold the
\* changes of exactly the committed chain: an undo record left by another
\* branch at the same height is never applied (_backup_block, _backup_txs).
UtxosMatchTip == pastLimit \/ utxos = Chain[dbTip]

\* Every committed block within reorg_limit of the daemon's height can be
\* backed up: its own undo info is stored, and its raw block file is its own
\* or absent, after any flushes, reorgs, kills and clean-ups.
UndoReady ==
  \A b \in Chain[dbTip] :
    Height[b] >= min_undo_height(daemonHeight) =>
      /\ undo[Height[b]] = b
      /\ rawBlocks[Height[b]] \in {NoBlock, b}

\* What docs/HOWTO.rst promises of a forcible kill ("the database should not
\* get corrupted ... the worst case should be having to restart indexing from
\* the most recent UTXO flush"): the recovered history is the committed
\* chain's. A kill between the two batches of a backup flush breaks it.
HistoryComplete == pc = "down" => Recovered = Entries(Chain[dbTip])

\* The stores implement DurableIndex: no kill, partial flush or reopening
\* ever changes what a restart recovers, except by whole flushed runs of
\* blocks and by one block backed up at a time.
Abstract == INSTANCE DurableIndex WITH tip <- dbTip, history <- Recovered
Refines == Abstract!Spec
=============================================================================
