------------------------- MODULE HistoryCompaction -------------------------
(***************************************************************************)
(* The rows of the history DB (server/history.py) through flushes, reorgs, *)
(* the compaction script (electrumx_compact_history) and kills.            *)
(*                                                                         *)
(* A row is keyed by address and flush count, and an address's history is  *)
(* its rows in the order of their keys.  Compaction rewrites it as rows    *)
(* 0, 1, ... of a fixed size and at its end takes the flush count down to  *)
(* the last of them.  The history DB and the UTXO DB are committed one     *)
(* after the other: on opening, rows of flushes the UTXO DB has not heard  *)
(* of are deleted.  A block has one tx; ChainStore has the other tables.   *)
(***************************************************************************)
EXTENDS Integers, Sequences, SequencesExt, FiniteSetsExt, Functions

CONSTANTS
    Hashes,         \* the addresses: 1..k, each a prefix of its own, in their order
    Touches,        \* the sets of addresses that a tx may touch
    RowEntries,     \* max_hist_row_entries
    MaxTxs,         \* bound: txs of the chain
    MaxUndos,       \* bound: blocks undone
    MaxKills,       \* bound: kills
    MaxCompactions  \* bound: runs of the script

ASSUME CompactionAssumption ==
    /\ Hashes = 1..Cardinality(Hashes) /\ Cardinality(Hashes) \in Nat \ {0}
    /\ Touches \subseteq SUBSET Hashes
    /\ RowEntries \in Nat \ {0}
    /\ MaxTxs \in Nat /\ MaxUndos \in Nat /\ MaxKills \in Nat /\ MaxCompactions \in Nat

VARIABLES
    chain,          \* the txs advanced, each as the set of its addresses
    (* on disk *)
    rows,           \* address -> flush count -> the tx numbers of the row
    histState,      \* the history DB's state
    saved,          \* db_tx_count of the UTXO DB
    utxoFlush,      \* utxo_flush_count of the UTXO DB
    (* in memory *)
    proc,           \* "down", "serving" or "compacting"
    at,             \* between the commits of the two DBs: "idle", "flushed", "compacted"
    history,        \* flush_count, comp_flush_count and comp_cursor
    flushed,        \* txs whose history is flushed
    (* bounds *)
    undos, kills, compactions,
    (* history: what only the property looks at *)
    trouble         \* a kill that the code does not recover from

diskVars == <<rows, histState, saved, utxoFlush>>
boundVars == <<undos, kills, compactions>>
compactionVars == <<chain, diskVars, proc, at, history, flushed, boundVars, trouble>>

State(count, comp, cursor) == [flush_count |-> count, comp_flush_count |-> comp, comp_cursor |-> cursor]
EndCursor == Max(Hashes) + 1        \* 2^32 in the code

(* add_unflushed: the number of a tx is noted for each of its addresses. *)
Noted(txs, x, nums, n) == IF x \in txs[n] THEN Append(nums, n) ELSE nums
TxsOf(x, from, to) ==
    FoldLeft(LAMBDA nums, n : Noted(chain, x, nums, n), << >>, [k \in 1..(to - from + 1) |-> from + k - 1])

(* get_txnums: the rows in the order of their keys. *)
RowRead(r, nums, key) == IF key \in DOMAIN r THEN nums \o r[key] ELSE nums
TxNums(r) ==
    FoldLeft(LAMBDA nums, key : RowRead(r, nums, key), << >>, [k \in 1..Max({0} \cup {key + 1 : key \in DOMAIN r}) |-> k - 1])

(* Mutant: puts come first. *)
Batched_puts_first(r, deletes, puts) ==
    [k \in (DOMAIN r \cup DOMAIN puts) \ deletes |-> IF k \in DOMAIN puts THEN puts[k] ELSE r[k]]

(* A batch that deletes some keys of an address and puts some: deletes come first. *)
Batched(r, deletes, puts) ==
    [k \in (DOMAIN r \ deletes) \cup DOMAIN puts |-> IF k \in DOMAIN puts THEN puts[k] ELSE r[k]]

-----------------------------------------------------------------------------
(* The server *)

AdvanceTx(hashXs) ==
    /\ proc = "serving" /\ at = "idle" /\ Len(chain) < MaxTxs
    /\ chain' = Append(chain, hashXs)
    /\ UNCHANGED <<diskVars, proc, at, history, flushed, boundVars, trouble>>

(* flush_history: a row per address, keyed by the next flush count. *)
FlushHistory ==
    /\ proc = "serving" /\ at = "idle" /\ flushed < Len(chain)
    /\ history' = [history EXCEPT !.flush_count = @ + 1]
    /\ histState' = history'
    /\ rows' = [x \in Hashes |->
                  LET new == TxsOf(x, flushed + 1, Len(chain))
                  IN IF new = << >> THEN rows[x]
                     ELSE Batched(rows[x], {}, [k \in {history'.flush_count} |-> new])]
    /\ flushed' = Len(chain) /\ at' = "flushed"
    /\ UNCHANGED <<chain, saved, utxoFlush, proc, boundVars, trouble>>

(* What History.backup leaves of the rows of an address: from the last one back, txs from
   count on go, and the first row that keeps some ends it. *)
bisect(nums, count) == Max({i \in 0..Len(nums) : i = 0 \/ nums[i] <= count})
BackedUp(r, count) ==
    LET low(k) == SubSeq(r[k], 1, bisect(r[k], count))
        kept == {k \in DOMAIN r : low(k) # << >>}
    IN [k \in kept |-> IF k = Max(kept) THEN low(k) ELSE r[k]]

(* The last block is undone; all of the chain is flushed before. *)
Backup ==
    /\ proc = "serving" /\ at = "idle"
    /\ chain # << >> /\ saved = Len(chain) /\ undos < MaxUndos
    /\ undos' = undos + 1
    /\ history' = [history EXCEPT !.flush_count = @ + 1]
    /\ histState' = history'
    /\ rows' = [x \in Hashes |-> IF x \in Last(chain) THEN BackedUp(rows[x], saved - 1) ELSE rows[x]]
    /\ chain' = Front(chain) /\ flushed' = saved - 1 /\ at' = "flushed"
    /\ UNCHANGED <<saved, utxoFlush, proc, kills, compactions, trouble>>

(* The UTXO DB's batch, of a flush or a backup. *)
CommitUtxos ==
    /\ proc = "serving" /\ at = "flushed"
    /\ utxoFlush' = history.flush_count /\ saved' = Len(chain)
    /\ at' = "idle"
    /\ UNCHANGED <<chain, rows, histState, proc, history, flushed, boundVars, trouble>>

Shutdown ==
    /\ proc = "serving" /\ at = "idle" /\ saved = Len(chain)
    /\ proc' = "down"
    /\ UNCHANGED <<chain, diskVars, at, history, flushed, boundVars, trouble>>

-----------------------------------------------------------------------------
(* Opening: read_state and clear_excess. *)

Excess == histState.flush_count > utxoFlush
Cleared == IF Excess THEN [histState EXCEPT !.flush_count = utxoFlush] ELSE histState

OpenHistory ==
    /\ proc = "down"
    /\ histState' = Cleared
    /\ rows' = IF ~Excess THEN rows
               ELSE [x \in Hashes |-> Restrict(rows[x], {k \in DOMAIN rows[x] : k <= utxoFlush})]
    /\ chain' = SubSeq(chain, 1, saved) /\ flushed' = saved /\ at' = "idle"
    /\ UNCHANGED <<saved, utxoFlush, undos, kills, trouble>>

(* A compaction in progress is cancelled, in memory. *)
OpenForServing ==
    /\ OpenHistory
    /\ proc' = "serving"
    /\ history' = State(Cleared.flush_count, -1, -1)
    /\ UNCHANGED compactions

(* The script continues where one was interrupted. *)
OpenForCompacting ==
    /\ compactions < MaxCompactions
    /\ compactions' = compactions + 1
    /\ OpenHistory
    /\ proc' = "compacting"
    /\ history' = State(Cleared.flush_count, Max({Cleared.comp_flush_count, 1}),
                        IF Cleared.comp_cursor = -1 THEN 1 ELSE Cleared.comp_cursor)

-----------------------------------------------------------------------------
(* The script *)

(* _compact_hashX: rows 0, 1, ... of RowEntries entries; rows that are so already stay. *)
Chunks(full) ==
    [k \in 0..((Len(full) - 1) \div RowEntries) |->
        SubSeq(full, k * RowEntries + 1, Min({(k + 1) * RowEntries, Len(full)}))]
Compacted(r) ==
    LET chunks == Chunks(TxNums(r))
        same == {k \in DOMAIN r \cap DOMAIN chunks : r[k] = chunks[k]}
    IN Batched(r, DOMAIN r \ same, Restrict(chunks, DOMAIN chunks \ same))

(* _compact_history: prefixes from the cursor on until enough has been written, then
   _flush_compaction with all of them in a batch. *)
CompactPass(cursor) ==
    /\ proc = "compacting" /\ at = "idle" /\ history.comp_cursor # -1
    /\ cursor > history.comp_cursor
    /\ LET done == {x \in history.comp_cursor..(cursor - 1) : rows[x] # << >>}
           comp == Max({history.comp_flush_count} \cup
                       UNION {DOMAIN Chunks(TxNums(rows[x])) : x \in done})
       IN /\ rows' = [x \in Hashes |-> IF x \in done THEN Compacted(rows[x]) ELSE rows[x]]
          /\ history' = IF cursor = EndCursor THEN State(comp, -1, -1)
                        ELSE State(history.flush_count, comp, cursor)
    /\ histState' = history'
    /\ at' = IF cursor = EndCursor THEN "compacted" ELSE "idle"
    /\ UNCHANGED <<chain, saved, utxoFlush, proc, flushed, boundVars, trouble>>

set_flush_count ==
    /\ proc = "compacting" /\ at = "compacted"
    /\ utxoFlush' = history.flush_count
    /\ proc' = "down" /\ at' = "idle"
    /\ UNCHANGED <<chain, rows, histState, saved, history, flushed, boundVars, trouble>>

-----------------------------------------------------------------------------
(* A kill leaves what is on disk.  Three are not recovered from: in a backup between the two
   DBs, whose history is gone (ChainStore); in a flush between them while the UTXO DB's
   count is still that of before a compaction, so that clear_excess finds no excess; in a
   compaction that has numbered a row past the flush count, which the next flush overwrites
   or clear_excess deletes. *)
KilledInBackup == at = "flushed" /\ Len(chain) < saved
KilledBehind == at = "flushed" /\ history.flush_count <= utxoFlush
KilledPast == proc = "compacting" /\ \E x \in Hashes : \E k \in DOMAIN rows[x] : k > utxoFlush

Kill ==
    /\ proc # "down" /\ kills < MaxKills
    /\ kills' = kills + 1
    /\ proc' = "down" /\ at' = "idle"
    /\ trouble' = (trouble \/ KilledInBackup \/ KilledBehind \/ KilledPast)
    /\ UNCHANGED <<chain, diskVars, history, flushed, undos, compactions>>

-----------------------------------------------------------------------------
CompactionInit ==
    /\ chain = << >> /\ rows = [x \in Hashes |-> << >>]
    /\ histState = State(0, -1, -1) /\ history = State(0, -1, -1)
    /\ saved = 0 /\ utxoFlush = 0 /\ flushed = 0
    /\ proc = "serving" /\ at = "idle"
    /\ undos = 0 /\ kills = 0 /\ compactions = 0 /\ trouble = FALSE

CompactionNext ==
    /\ ~trouble
    /\ \/ \E hashXs \in Touches : AdvanceTx(hashXs)
       \/ FlushHistory \/ Backup \/ CommitUtxos \/ Shutdown
       \/ OpenForServing \/ OpenForCompacting
       \/ \E cursor \in 2..EndCursor : CompactPass(cursor)
       \/ set_flush_count
       \/ Kill

-----------------------------------------------------------------------------
(* Whatever was compacted, cancelled or killed in between, an address's rows in the order of
   their keys are its flushed txs, once each and in their order (history.py, get_txnums),
   unless one of the three kills came first; and the next flush's key is past them all. *)
HistoryKept ==
    proc # "down" /\ ~trouble =>
        \A x \in Hashes :
            /\ TxNums(rows[x]) = TxsOf(x, 1, flushed)
            /\ proc = "serving" => \A k \in DOMAIN rows[x] : k <= history.flush_count
=============================================================================
