---------------------------- MODULE ClientReads ----------------------------
(***************************************************************************)
(* What clients are answered from: the caches over the DB (server/db.py)   *)
(* and those of the session manager (server/session.py), beside the block  *)
(* processor's flushes and reorganisations.                                *)
(*                                                                         *)
(* The event loop runs one coroutine at a time: the block processor, the   *)
(* mempool's refresh, which ends in a notification, and one client's       *)
(* requests.  What they await is a read in a worker thread, and a thread   *)
(* runs at any time, within a flush too: it reads the rows, stores the tx  *)
(* hashes it had to look up, and its coroutine goes on later.  Blocks have one  *)
(* tx, so a tx number is a height; an answer about an address is the txs   *)
(* that touch it, each as the branch of its block: a balance, a list of    *)
(* UTXOs, a history and a status are all functions of it.  The mempool's   *)
(* part of an answer is MempoolSync's.                                     *)
(***************************************************************************)
EXTENDS Integers, FiniteSets, FiniteSetsExt, Sequences, SequencesExt, Functions

CONSTANTS
    HashXs,         \* the addresses
    MaxHeight,      \* bound: the daemon's height
    MaxChanges,     \* bound: the daemon's new blocks and the reorganisations, of one block each
    MaxRequests,    \* bound: requests that read the DB
    Absent,         \* no entry
    Unknown         \* the hash of a tx above db_height

ASSUME ReadsAssumption ==
    MaxHeight \in Nat \ {0} /\ MaxChanges \in Nat /\ MaxRequests \in Nat

VARIABLES
    (* the block processor *)
    blocks,         \* the chain it has advanced to: blocks as [branch, touches]
    daemonHeight,   \* the daemon's height, as cached
    touched,        \* bp.touched
    phase,          \* "idle", or where a flush or reorganisation is
    reorgs,         \* reorganisations so far (bound)
    signalled,      \* backed_up_event set, the session manager not yet woken
    (* the DB, as a thread finds it *)
    histRows,       \* the blocks whose history rows and tx hashes are on disk
    utxoRows,       \* the blocks whose UTXO rows are
    dbHeight,       \* db_height
    (* Notifications *)
    touchedBp,      \* _touched_bp: height -> hashXs
    touchedMp,      \* the heights of _touched_mp
    highest,        \* _highest_block
    refreshing,     \* the height of the mempool's refresh under way, or 0
    notes,          \* the notification each caller is in
    (* caches: of the DB *)
    balances,       \* _balance_cache and _utxo_list_cache: hashX -> answer
    utxoLists,
    txHashes,       \* _tx_hash_cache: tx number -> tx hash
    (* caches: of the session manager *)
    histories,      \* _history_cache and _status_cache: hashX -> answer
    statuses,
    txsAt,          \* _tx_hashes_cache: height -> the block's tx
    reorgCount,     \* _reorg_count
    notified,       \* notified_height
    (* the session *)
    told,           \* hashX_subs: hashX -> the status the client was last given
    jobs,           \* the read each coroutine awaits
    requests,       \* reads of the client so far (bound)
    (* history: what only the property looks at *)
    lapsed          \* the entries that may differ from the DB, by what was missed

chainVars == <<blocks, daemonHeight, touched, phase, reorgs, signalled>>
dbVars == <<histRows, utxoRows, dbHeight>>
notifyVars == <<touchedBp, touchedMp, highest, refreshing, notes, notified>>
dbCaches == <<balances, utxoLists, txHashes>>
mgrCaches == <<histories, statuses, txsAt, reorgCount>>
sessionVars == <<told, jobs, requests>>
readVars == <<chainVars, dbVars, notifyVars, dbCaches, mgrCaches, sessionVars, lapsed>>

Callers == {"bp", "mp"}
NoJob == [op |-> "none", key |-> 0, at |-> "none", found |-> << >>, looked |-> {}, fresh |-> TRUE,
          count |-> 0]
NoNote == [at |-> "none", height |-> 0, touched |-> {}, todo |-> {}]

(* A flush or a backup is one stretch of the event loop: no coroutine runs in it. *)
Blocking == phase \in {"flush", "report", "reflush", "backup"}

(* The answer the rows of these blocks hold about an address. *)
Answer(seq, x) == [h \in {h \in DOMAIN seq : x \in seq[h].touches} |-> seq[h].branch]

-----------------------------------------------------------------------------
(* Worker threads *)

fs_tx_hash(n) ==
    IF txHashes[n] # Absent THEN txHashes[n]
    ELSE IF n > dbHeight THEN Unknown ELSE histRows[n].branch

Asked(op, key) ==
    [NoJob EXCEPT !.op = op, !.key = key, !.at = "thread",
                  !.count = IF op = "txs" THEN reorgCount ELSE 0]

(* What the thread of a job finds: the tx numbers of the history or UTXO rows, each with its
   hash; the hashes of one block; a header. *)
Found(j) ==
    CASE j.op \in {"balance", "utxos"} -> [n \in DOMAIN Answer(utxoRows, j.key) |-> fs_tx_hash(n)]
      [] j.op \in {"history", "status"} -> [n \in DOMAIN Answer(histRows, j.key) |-> fs_tx_hash(n)]
      [] OTHER -> [n \in {j.key} \cap 1..dbHeight |-> histRows[n].branch]

ThreadReads(t) ==
    /\ jobs[t].at = "thread"
    /\ LET f == Found(jobs[t])
           lookups == IF jobs[t].op \in {"txs", "header"} THEN {}
                      ELSE {n \in DOMAIN f : txHashes[n] = Absent}
       IN jobs' = [jobs EXCEPT ![t].at = IF lookups = {} THEN "back" ELSE "read", ![t].found = f,
                               ![t].looked = lookups,
                               ![t].fresh = ~Blocking /\ DOMAIN f \cap lapsed.txs = {}]
    /\ UNCHANGED <<chainVars, dbVars, notifyVars, dbCaches, mgrCaches, told, requests, lapsed>>

ThreadStores(t) ==
    /\ jobs[t].at = "read"
    /\ txHashes' = [n \in DOMAIN txHashes |->
                      IF n \in jobs[t].looked THEN jobs[t].found[n] ELSE txHashes[n]]
    /\ jobs' = [jobs EXCEPT ![t].at = "back", ![t].looked = {}]
    /\ lapsed' = [lapsed EXCEPT !.txs = IF jobs[t].fresh THEN @ ELSE @ \cup jobs[t].looked]
    /\ UNCHANGED <<chainVars, dbVars, notifyVars, balances, utxoLists, mgrCaches, told, requests>>

(* The jobs whose threads read before a write of the block processor. *)
Overtaken == [t \in DOMAIN jobs |->
                IF jobs[t].at \in {"read", "back"} THEN [jobs[t] EXCEPT !.fresh = FALSE] ELSE jobs[t]]

-----------------------------------------------------------------------------
(* Notifications *)

NotifyHeight(tbp, tmp, top) ==
    LET common == DOMAIN tbp \cap tmp
    IN IF common # {} THEN Max(common)
       ELSE IF top \in tmp /\ Max(tmp) = top THEN top ELSE 0

(* The addresses of xs with an entry of these caches that is not what the rows say. *)
Differing(xs, caches, rows) ==
    {x \in xs : \E cache \in caches : cache[x] \notin {Absent, Answer(rows, x)}}

(* SessionManager._notify_sessions, as far as it runs at once: at another height the header is
   awaited first.  Entries that are not invalidated lapse: at the same height, and those of
   a report that is replaced. *)
MaybeNotify(c, tbp, tmp, top, replaced) ==
    LET h == NotifyHeight(tbp, tmp, top)
        about == UNION {tbp[o] : o \in {o \in DOMAIN tbp : o <= h}}
        same == h = notified
        kept == IF h # 0 /\ same THEN about ELSE {}
    IN /\ highest' = top
       /\ touchedBp' = [o \in {o \in DOMAIN tbp : o > h} |-> tbp[o]]
       /\ touchedMp' = {o \in tmp : o > h}
       /\ notes' = CASE h = 0 -> notes
                     [] h # 0 /\ same ->
                          [notes EXCEPT ![c] = [at |-> "sessions", height |-> h, touched |-> about,
                                                todo |-> {x \in about : told[x] # Absent}]]
                     [] OTHER ->
                          [notes EXCEPT ![c] = [at |-> "header", height |-> Min({h, dbHeight}),
                                                touched |-> about, todo |-> {}]]
       /\ jobs' = IF h = 0 \/ same THEN jobs
                  ELSE [jobs EXCEPT ![c] = Asked("header", Min({h, dbHeight}))]
       /\ lapsed' = [lapsed EXCEPT !.statuses = @ \cup Differing(kept, {histories, statuses}, utxoRows),
                                   !.told = @ \cup Differing(replaced, {told}, utxoRows)]

(* _refresh_hsub_results has its header: the height is recorded, the touched entries are
   invalidated and the sessions notified. *)
HeaderRead(c) ==
    /\ ~Blocking /\ notes[c].at = "header" /\ jobs[c].at = "back" /\ jobs[c].found # << >>
    /\ LET about == notes[c].touched
           Without(cache) == [x \in HashXs |-> IF x \in about THEN Absent ELSE cache[x]]
       IN /\ notified' = notes[c].height
          /\ histories' = Without(histories)
          /\ statuses' = Without(statuses)
          /\ notes' = [notes EXCEPT ![c].at = "sessions",
                                    ![c].todo = {x \in about : told[x] # Absent}]
          /\ lapsed' = [lapsed EXCEPT !.statuses = @ \ about]
    /\ jobs' = [jobs EXCEPT ![c] = NoJob]
    /\ UNCHANGED <<chainVars, dbVars, touchedBp, touchedMp, highest, refreshing, dbCaches, txsAt,
                   reorgCount, told, requests>>

(* The block was undone while its header was awaited: raw_header raises, and the error ends
   the caller's task and with it the server. *)
HeaderLost(c) ==
    /\ ~Blocking /\ notes[c].at = "header" /\ jobs[c].at = "back" /\ jobs[c].found = << >>
    /\ phase' = "stopped"
    /\ UNCHANGED <<blocks, daemonHeight, touched, reorgs, signalled, dbVars, notifyVars, dbCaches,
                   mgrCaches, sessionVars, lapsed>>

(* address_status without mempool entries, when a cache has it. *)
CachedStatus(x) == IF statuses[x] # Absent THEN statuses[x] ELSE histories[x]
Lapse(x, found, fresh) ==
    [lapsed EXCEPT !.told = IF fresh \/ found = Answer(utxoRows, x) THEN @ \ {x} ELSE @ \cup {x},
                   !.statuses = IF fresh \/ found = Answer(utxoRows, x) THEN @ ELSE @ \cup {x}]

(* One subscribed address of the notification: its status from a cache, or a read. *)
NotifyInner(c) ==
    /\ ~Blocking /\ notes[c].at = "sessions" /\ jobs[c] = NoJob
    /\ IF notes[c].todo = {}
       THEN /\ notes' = [notes EXCEPT ![c] = NoNote]
            /\ UNCHANGED <<statuses, told, jobs, lapsed>>
       ELSE \E x \in notes[c].todo :
            /\ notes' = [notes EXCEPT ![c].todo = @ \ {x}]
            /\ IF CachedStatus(x) = Absent
               THEN jobs' = [jobs EXCEPT ![c] = Asked("status", x)] /\ UNCHANGED <<statuses, told, lapsed>>
               ELSE /\ statuses' = [statuses EXCEPT ![x] = CachedStatus(x)]
                    /\ told' = [told EXCEPT ![x] = IF @ = Absent THEN @ ELSE CachedStatus(x)]
                    /\ lapsed' = Lapse(x, CachedStatus(x), x \notin lapsed.statuses)
                    /\ UNCHANGED jobs
    /\ UNCHANGED <<chainVars, dbVars, touchedBp, touchedMp, highest, refreshing, notified, dbCaches,
                   histories, txsAt, reorgCount, requests>>

(* The status of a notification or of a subscription comes back from the thread. *)
GotStatus(t) ==
    LET x == jobs[t].key
    IN /\ histories' = [histories EXCEPT ![x] = jobs[t].found]
       /\ statuses' = [statuses EXCEPT ![x] = jobs[t].found]
       /\ told' = [told EXCEPT ![x] = IF t = "client" \/ @ # Absent THEN jobs[t].found ELSE @]
       /\ lapsed' = Lapse(x, jobs[t].found, jobs[t].fresh)

StatusRead(c) ==
    /\ ~Blocking /\ notes[c].at = "sessions" /\ jobs[c].at = "back"
    /\ Unknown \notin Range(jobs[c].found)
    /\ GotStatus(c)
    /\ jobs' = [jobs EXCEPT ![c] = NoJob]
    /\ UNCHANGED <<chainVars, dbVars, notifyVars, dbCaches, txsAt, reorgCount, requests>>

(* MemPool._refresh_hashes: its height is the daemon's and, when _process_mempool begins, the
   DB's.  The report is for that height, whatever has become of the chain meanwhile. *)
RefreshStarts ==
    /\ ~Blocking /\ phase # "stopped" /\ notes["mp"] = NoNote /\ refreshing = 0
    /\ dbHeight = daemonHeight
    /\ refreshing' = dbHeight
    /\ UNCHANGED <<chainVars, dbVars, touchedBp, touchedMp, highest, notes, notified, dbCaches,
                   mgrCaches, sessionVars, lapsed>>

on_mempool ==
    /\ ~Blocking /\ phase # "stopped" /\ refreshing # 0
    /\ refreshing' = 0
    /\ MaybeNotify("mp", touchedBp, touchedMp \cup {refreshing}, highest, {})
    /\ UNCHANGED <<chainVars, dbVars, notified, dbCaches, mgrCaches, told, requests>>

-----------------------------------------------------------------------------
(* The block processor *)

BpRuns == phase = "idle" /\ notes["bp"] = NoNote

Changes == daemonHeight - 1 + reorgs

DaemonGrows ==
    /\ phase # "stopped" /\ ~Blocking
    /\ daemonHeight < MaxHeight /\ Changes < MaxChanges
    /\ daemonHeight' = daemonHeight + 1
    /\ UNCHANGED <<blocks, touched, phase, reorgs, signalled, dbVars, notifyVars, dbCaches, mgrCaches,
                   sessionVars, lapsed>>

(* _advance_blocks with one block.  After a reorganisation it has come from the daemon, and
   meanwhile the session manager has heard of the reorganisation.  At the daemon's height it is flushed, history first;
   below, it is only reported: the next flush will not invalidate what it touched. *)
Advance(touches) ==
    LET next == Append(blocks, [branch |-> reorgs, touches |-> touches])
        flushes == Len(next) = daemonHeight
    IN /\ BpRuns /\ ~signalled /\ Len(blocks) < daemonHeight
       /\ blocks' = next
       /\ touched' = touched \cup touches
       /\ IF flushes THEN phase' = "flush" /\ histRows' = next /\ jobs' = Overtaken /\ UNCHANGED lapsed
          ELSE /\ phase' = "report" /\ lapsed' = [lapsed EXCEPT !.dropped = @ \cup touched']
               /\ UNCHANGED <<histRows, jobs>>
       /\ UNCHANGED <<daemonHeight, reorgs, signalled, utxoRows, dbHeight, notifyVars, dbCaches,
                      mgrCaches, told, requests>>

(* Mutant: the UTXO lists of touched addresses are kept. *)
invalidate_balance_cache_only(xs) ==
    /\ balances' = [x \in HashXs |-> IF x \in xs THEN Absent ELSE balances[x]]
    /\ UNCHANGED utxoLists

invalidate_balance_cache(xs) ==
    /\ balances' = [x \in HashXs |-> IF x \in xs THEN Absent ELSE balances[x]]
    /\ utxoLists' = [x \in HashXs |-> IF x \in xs THEN Absent ELSE utxoLists[x]]

(* The waiting reports about blocks of the chain: others are about blocks since undone, and that
   of a block just advanced to is still to come. *)
OwnReports ==
    {o \in DOMAIN touchedBp : IF phase \in {"flush", "report"} THEN o < Len(blocks) ELSE o <= Len(blocks)}

(* The rest of a flush: db_height, the UTXO rows, and the caches of what was touched.  What a
   block touched that was reported before this flush, and the report has gone, lapses. *)
FlushRows ==
    /\ phase \in {"flush", "reflush"}
    /\ dbHeight' = Len(blocks) /\ utxoRows' = blocks
    /\ invalidate_balance_cache(touched)
    /\ jobs' = Overtaken
    /\ LET silent == lapsed.dropped \ (touched \cup UNION {touchedBp[o] : o \in OwnReports})
       IN lapsed' = [lapsed EXCEPT
            !.rows = (@ \cup lapsed.dropped) \ touched, !.dropped = {},
            !.statuses = @ \cup Differing(silent, {histories, statuses}, blocks),
            !.told = @ \cup Differing(silent, {told}, blocks)]
    /\ phase' = IF phase = "flush" THEN "report" ELSE "hashes"
    /\ UNCHANGED <<blocks, daemonHeight, touched, reorgs, signalled, histRows, notifyVars, txHashes,
                   mgrCaches, told, requests>>

on_block ==
    /\ phase = "report"
    /\ LET replaced == (UNION {touchedBp[o] : o \in DOMAIN touchedBp \cap {Len(blocks)}}) \ touched
           reports == [o \in DOMAIN touchedBp \cup {Len(blocks)} |->
                         IF o = Len(blocks) THEN touched ELSE touchedBp[o]]
       IN MaybeNotify("bp", reports, touchedMp, Len(blocks), replaced)
    /\ touched' = {} /\ phase' = "idle"
    /\ UNCHANGED <<blocks, daemonHeight, reorgs, signalled, dbVars, refreshing, notified, dbCaches,
                   mgrCaches, told, requests>>

(* A reorganisation of one block begins with a flush. *)
StartReorg ==
    /\ BpRuns /\ Changes < MaxChanges /\ Len(blocks) > 1
    /\ reorgs' = reorgs + 1
    /\ IF dbHeight = Len(blocks) THEN phase' = "hashes" /\ UNCHANGED <<histRows, jobs>>
       ELSE phase' = "reflush" /\ histRows' = blocks /\ jobs' = Overtaken
    /\ UNCHANGED <<blocks, daemonHeight, touched, signalled, utxoRows, dbHeight, notifyVars, dbCaches,
                   mgrCaches, told, requests, lapsed>>

(* With the hashes of the branch read, which awaits the daemon, the block is undone: history
   and db_height first. *)
BackupHistory ==
    /\ phase = "hashes" /\ ~signalled
    /\ phase' = "backup"
    /\ blocks' = Front(blocks) /\ histRows' = Front(blocks) /\ dbHeight' = Len(blocks) - 1
    /\ touched' = touched \cup Last(blocks).touches
    /\ jobs' = Overtaken
    /\ UNCHANGED <<daemonHeight, reorgs, signalled, utxoRows, notifyVars, dbCaches, mgrCaches, told,
                   requests, lapsed>>

(* Then the UTXO rows; and every entry of the DB's caches goes. *)
BackupRows ==
    /\ phase = "backup"
    /\ phase' = "reset"
    /\ utxoRows' = blocks
    /\ balances' = [x \in HashXs |-> Absent] /\ utxoLists' = [x \in HashXs |-> Absent]
    /\ txHashes' = [n \in 1..MaxHeight |-> Absent]
    /\ jobs' = Overtaken
    /\ lapsed' = [lapsed EXCEPT !.rows = {}, !.txs = {}]
    /\ UNCHANGED <<blocks, daemonHeight, touched, reorgs, signalled, histRows, dbHeight, notifyVars,
                   mgrCaches, told, requests>>

(* The prefetcher is reset, which awaits, and backed_up_event set. *)
ReorgDone ==
    /\ phase = "reset"
    /\ phase' = "idle" /\ signalled' = TRUE
    /\ UNCHANGED <<blocks, daemonHeight, touched, reorgs, dbVars, notifyVars, dbCaches, mgrCaches,
                   sessionVars, lapsed>>

_handle_chain_reorgs ==
    /\ ~Blocking /\ phase # "stopped" /\ signalled
    /\ signalled' = FALSE
    /\ reorgCount' = reorgCount + 1
    /\ txsAt' = [n \in 1..MaxHeight |-> Absent]
    /\ histories' = [x \in HashXs |-> Absent] /\ statuses' = [x \in HashXs |-> Absent]
    /\ lapsed' = [lapsed EXCEPT !.statuses = {}]
    /\ UNCHANGED <<blocks, daemonHeight, touched, phase, reorgs, dbVars, notifyVars, dbCaches,
                   sessionVars>>

-----------------------------------------------------------------------------
(* The client *)

ClientRuns == ~Blocking /\ phase # "stopped" /\ jobs["client"] = NoJob

(* A request that has to read; with its answer cached, it changes nothing but for the cases
   below. *)
Read(op, key) ==
    /\ requests < MaxRequests
    /\ requests' = requests + 1
    /\ jobs' = [jobs EXCEPT !["client"] = Asked(op, key)]

get_balance(x) ==
    /\ ClientRuns /\ balances[x] = Absent
    /\ IF utxoLists[x] # Absent
       THEN balances' = [balances EXCEPT ![x] = utxoLists[x]] /\ UNCHANGED <<requests, jobs>>
       ELSE Read("balance", x) /\ UNCHANGED balances
    /\ UNCHANGED <<chainVars, dbVars, notifyVars, utxoLists, txHashes, mgrCaches, told, lapsed>>

all_utxos(x) ==
    /\ ClientRuns /\ utxoLists[x] = Absent
    /\ Read("utxos", x)
    /\ UNCHANGED <<chainVars, dbVars, notifyVars, dbCaches, mgrCaches, told, lapsed>>

limited_history(x) ==
    /\ ClientRuns /\ histories[x] = Absent
    /\ Read("history", x)
    /\ UNCHANGED <<chainVars, dbVars, notifyVars, dbCaches, mgrCaches, told, lapsed>>

hashX_subscribe(x) ==
    /\ ClientRuns /\ told[x] = Absent
    /\ IF CachedStatus(x) = Absent THEN Read("status", x) /\ UNCHANGED <<statuses, told, lapsed>>
       ELSE /\ statuses' = [statuses EXCEPT ![x] = CachedStatus(x)]
            /\ told' = [told EXCEPT ![x] = CachedStatus(x)]
            /\ lapsed' = Lapse(x, CachedStatus(x), x \notin lapsed.statuses)
            /\ UNCHANGED <<requests, jobs>>
    /\ UNCHANGED <<chainVars, dbVars, notifyVars, dbCaches, histories, txsAt, reorgCount>>

unsubscribe_hashX(x) ==
    /\ ClientRuns /\ told[x] # Absent
    /\ told' = [told EXCEPT ![x] = Absent]
    /\ lapsed' = [lapsed EXCEPT !.told = @ \ {x}]
    /\ UNCHANGED <<chainVars, dbVars, notifyVars, dbCaches, mgrCaches, jobs, requests>>

tx_hashes_at_blockheight(h) ==
    /\ ClientRuns /\ h <= dbHeight /\ txsAt[h] = Absent
    /\ Read("txs", h)
    /\ UNCHANGED <<chainVars, dbVars, notifyVars, dbCaches, mgrCaches, told, lapsed>>

(* limited_history and all_utxos read again for as long as a hash is not found, and
   tx_hashes_at_blockheight if a reorganisation was signalled meanwhile. *)
ReadsAgain(t) ==
    /\ ~Blocking /\ jobs[t].at = "back"
    /\ \/ jobs[t].op # "header" /\ Unknown \in Range(jobs[t].found)
       \/ jobs[t].op = "txs" /\ jobs[t].found # << >> /\ jobs[t].count # reorgCount
    /\ jobs' = [jobs EXCEPT ![t] = Asked(@.op, @.key)]
    /\ UNCHANGED <<chainVars, dbVars, notifyVars, dbCaches, mgrCaches, told, requests, lapsed>>

(* The answer is cached and sent. *)
Answered ==
    LET j == jobs["client"]
        x == j.key
        late == ~j.fresh /\ j.found # Answer(utxoRows, x)
    IN /\ ~Blocking /\ j.at = "back" /\ Unknown \notin Range(j.found)
       /\ j.op = "txs" /\ j.found # << >> => j.count = reorgCount
       /\ jobs' = [jobs EXCEPT !["client"] = NoJob]
       /\ IF j.op \in {"balance", "utxos"}
          THEN /\ utxoLists' = [utxoLists EXCEPT ![x] = j.found]
               /\ balances' = IF j.op = "balance" THEN [balances EXCEPT ![x] = j.found] ELSE balances
               /\ lapsed' = [lapsed EXCEPT !.rows = IF late THEN @ \cup {x} ELSE @]
          ELSE UNCHANGED <<utxoLists, balances>> /\ (j.op = "txs" => lapsed' = lapsed)
       /\ CASE j.op = "status" -> GotStatus("client")
            [] j.op = "history" ->
                 /\ histories' = [histories EXCEPT ![x] = j.found]
                 /\ lapsed' = [lapsed EXCEPT !.statuses = IF late THEN @ \cup {x} ELSE @]
                 /\ UNCHANGED <<statuses, told>>
            [] OTHER -> UNCHANGED <<histories, statuses, told>>
       /\ txsAt' = IF j.op = "txs" /\ j.found # << >> THEN [txsAt EXCEPT ![x] = j.found[x]] ELSE txsAt
       /\ UNCHANGED <<chainVars, dbVars, notifyVars, txHashes, reorgCount, requests>>

-----------------------------------------------------------------------------
(* The index serves at height 1; the client has subscribed to nothing or to everything. *)
ReadsInit ==
    LET first == <<[branch |-> 0, touches |-> HashXs]>>
        none == [x \in HashXs |-> Absent]
    IN /\ blocks = first /\ histRows = first /\ utxoRows = first /\ dbHeight = 1
       /\ daemonHeight = 1 /\ touched = {} /\ phase = "idle" /\ reorgs = 0 /\ signalled = FALSE
       /\ touchedBp = << >> /\ touchedMp = {} /\ highest = 1 /\ refreshing = 0 /\ notified = 1
       /\ notes = [c \in Callers |-> NoNote]
       /\ balances = none /\ utxoLists = none /\ histories = none /\ statuses = none
       /\ told \in {none, [x \in HashXs |-> Answer(first, x)]}
       /\ txHashes = [n \in 1..MaxHeight |-> Absent] /\ txsAt = [n \in 1..MaxHeight |-> Absent]
       /\ reorgCount = 0 /\ requests = 0
       /\ jobs = [t \in Callers \cup {"client"} |-> NoJob]
       /\ lapsed = [dropped |-> {}, rows |-> {}, txs |-> {}, statuses |-> {}, told |-> {}]

Threads == \E t \in DOMAIN jobs : ThreadReads(t) \/ ThreadStores(t)

Notified == \E c \in Callers : HeaderRead(c) \/ HeaderLost(c) \/ NotifyInner(c) \/ StatusRead(c)

Processor ==
    \/ \E touches \in SUBSET HashXs : Advance(touches)
    \/ FlushRows \/ on_block
    \/ StartReorg \/ BackupHistory \/ BackupRows \/ ReorgDone

Client ==
    \/ \E x \in HashXs : \/ get_balance(x) \/ all_utxos(x) \/ limited_history(x)
                         \/ hashX_subscribe(x) \/ unsubscribe_hashX(x)
    \/ \E h \in 1..MaxHeight : tx_hashes_at_blockheight(h)
    \/ \E t \in DOMAIN jobs : ReadsAgain(t)
    \/ Answered

ReadsNext ==
    /\ phase # "stopped"
    /\ DaemonGrows \/ RefreshStarts \/ on_mempool \/ _handle_chain_reorgs \/ Threads \/ Notified \/ Processor \/ Client

-----------------------------------------------------------------------------
(* Outside flushes and reorganisations a cached balance or UTXO list is what the UTXO rows
   say, unless the block that changed it was reported before it was flushed, or the answer
   was read before a flush and cached after it (db.py, _balance_cache, _utxo_list_cache). *)
RowAnswers ==
    phase = "idle" =>
        \A x \in HashXs : \A cache \in {balances, utxoLists} :
            cache[x] \in {Absent, Answer(utxoRows, x)} \/ x \in lapsed.rows

(* A cached tx hash is that of the block on disk, unless a thread that read across a write
   stored it (db.py, _tx_hash_cache); a block's tx hashes always are, once the session manager
   has heard of the reorganisation (session.py, _tx_hashes_cache and _reorg_count). *)
TxAnswers ==
    phase = "idle" =>
        \A n \in 1..dbHeight :
            /\ txHashes[n] \in {Absent, histRows[n].branch} \/ n \in lapsed.txs
            /\ ~signalled => txsAt[n] \in {Absent, histRows[n].branch}

(* Nothing is on its way about this address: it is in no touched set, every notification is
   through, and every block is flushed. *)
Settled(x) ==
    /\ phase = "idle" /\ ~signalled /\ dbHeight = Len(blocks)
    /\ x \notin touched /\ \A o \in DOMAIN touchedBp : x \notin touchedBp[o]
    /\ \A c \in Callers : notes[c] = NoNote

(* Once the notifications are through, a cached history or status, and the status a
   subscriber was last given, are the DB's, unless they were read before a flush and kept
   after it, or the block was reported at the height clients already had, or before it was
   flushed; and what a subscriber was given, unless the report was replaced by another
   for its height (session.py, _notify_sessions, hashX_subscribe; controller.py, on_block). *)
StatusAnswers ==
    \A x \in HashXs : Settled(x) =>
        /\ \A cache \in {histories, statuses} :
              cache[x] \in {Absent, Answer(histRows, x)} \/ x \in lapsed.statuses
        /\ told[x] \in {Absent, Answer(histRows, x)} \/ x \in lapsed.told

(* What clients are answered from follows the DB: RowAnswers, TxAnswers and StatusAnswers. *)
AnswersFollowRows == RowAnswers /\ TxAnswers /\ StatusAnswers
=============================================================================
