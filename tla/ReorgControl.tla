---------------------------- MODULE ReorgControl ----------------------------
(***************************************************************************)
(* The two tasks that make the index follow the daemon                     *)
(* (server/block_processor.py): the Prefetcher, which asks the daemon for  *)
(* the blocks above fetched_height and queues them, and the block          *)
(* processor, which appends them to its tip, notices that a block does not *)
(* connect, finds the fork and backs up to it.                             *)
(*                                                                         *)
(* Both are coroutines of one event loop, so an action is the code between *)
(* two awaits.  What interleaves is every daemon call: the daemon may      *)
(* change branch between the height, the hashes and the raw blocks, while  *)
(* the fork is searched for, and while the blocks are undone; and an       *)
(* operator may ask for a reorg at any await.                              *)
(*                                                                         *)
(* What a block does to the databases is ChainStore's and UtxoUndo's       *)
(* subject: here the index is its tip.                                     *)
(***************************************************************************)
EXTENDS Integers, Sequences, SequencesExt

CONSTANTS
    Blocks,         \* the blocks of every branch, each as its chain
    FirstTip,       \* the daemon's best block at start
    StartTips,      \* the index's: blocks of its chain
    CacheBlocks,    \* blocks in min_cache_size: a fuller cache is not refilled
    FetchBlocks,    \* the most blocks one request asks for
    ForcedCounts,   \* the counts an operator passes to the reorg RPC
    MaxForces       \* bound: operator requests

Natural == -1       \* the count of a reorg the daemon caused
NoReorg == -2       \* reorg_count is None

Names == UNION {Range(b) : b \in Blocks}

ASSUME TreeAssumption ==
    /\ Blocks \subseteq Seq(Names)
    /\ \A b \in Blocks : Prefixes(b) \subseteq Blocks
    /\ FirstTip \in Blocks
    /\ StartTips \subseteq Prefixes(FirstTip)
ASSUME BoundsAssumption ==
    /\ CacheBlocks \in Nat \ {0} /\ FetchBlocks \in Nat \ {0}
    /\ ForcedCounts \subseteq Nat /\ MaxForces \in Nat

VARIABLES
    (* the daemon *)
    daemonTip,      \* best block
    cachedHeight,   \* Daemon._height: the last height anyone asked for
    (* Prefetcher *)
    pf,             \* where main_loop is
    pfHeight,       \* the daemon_height local of _prefetch_blocks
    hashes,         \* hex_hashes, between the two requests
    fetched,        \* fetched_height
    blocks,         \* the prefetched blocks; their number is cache_size
    refill,         \* refill_event is set
    semaphore,      \* the prefetcher holds the semaphore
    (* BlockProcessor *)
    bp,             \* where _process_blocks is
    tip,            \* its tip; its height is the tip's
    queue,          \* raw_blocks still to be advanced
    blocksEvent,    \* blocks_event is set
    reorg,          \* reorg_count
    count,          \* the count _reorg_chain was called with
    start,          \* start and window, of _calc_reorg_range
    window,
    caughtUp,       \* caught_up_event is set
    forces,         \* operator requests so far (bound)
    (* history: what only the properties look at *)
    switched,       \* the daemon has left its branch since a natural reorg last began
    owed,           \* the operator was told of a reorg that has not begun
    before          \* tip when the running reorg began

pfVars == <<pf, pfHeight, hashes, semaphore>>
cacheVars == <<fetched, blocks, refill>>
rangeVars == <<count, start, window, before>>
forceVars == <<forces, owed>>
vars == <<daemonTip, switched, cachedHeight, pfVars, cacheVars, bp, tip, queue,
          blocksEvent, reorg, rangeVars, caughtUp, forceVars>>

-----------------------------------------------------------------------------
(* A block commits to the one before it, so a block is its chain: the sequence
   of the names of the blocks from height 1 up to it.  The genesis block is the
   empty one. *)

Genesis == <<>>

Height(b) == Len(b)

Parent(b) == Front(b)

(* The hashes at heights first .. first + n - 1 of the chain of b. *)
Hashes(b, first, n) == [i \in 1 .. n |-> SubSeq(b, 1, first + i - 1)]

(* The highest block two chains share. *)
Fork(a, b) == LongestCommonPrefix({a, b})

(* No branch leaves another in the lower half of the shorter one's heights.
   The search for a fork supposes it: otherwise its windows may reach down to
   block 0 before they reach the fork.  Undo information is kept for
   reorg_limit blocks, so that every reorg which can be carried out on a chain
   of at least twice that height is of this kind. *)
ForksAreHigh ==
    \A a, b \in Blocks :
        Height(a) <= Height(b) => Height(a) <= 2 * Height(Fork(a, b))

Least(m, n) == IF m < n THEN m ELSE n

-----------------------------------------------------------------------------
(* The daemon: it adopts a branch only when it is higher. *)

DaemonGrows ==
    /\ \E b \in Blocks \ {Genesis} : Parent(b) = daemonTip /\ daemonTip' = b
    /\ UNCHANGED <<cachedHeight, pfVars, cacheVars, bp, tip, queue, blocksEvent,
                   reorg, rangeVars, caughtUp, forceVars, switched>>

DaemonSwitches ==
    /\ \E b \in Blocks : /\ Height(b) > Height(daemonTip)
                         /\ ~IsPrefix(daemonTip, b)
                         /\ daemonTip' = b
    /\ switched' = TRUE
    /\ UNCHANGED <<cachedHeight, pfVars, cacheVars, bp, tip, queue, blocksEvent,
                   reorg, rangeVars, caughtUp, forceVars>>

-----------------------------------------------------------------------------
(* Prefetcher *)

bpOwn == <<bp, tip, queue, reorg, rangeVars, caughtUp, forceVars, switched>>

(* main_loop: wait for refill_event. *)
PfWake ==
    /\ pf = "refill" /\ refill
    /\ pf' = "height"
    /\ UNCHANGED <<daemonTip, cachedHeight, pfHeight, hashes, semaphore,
                   cacheVars, bpOwn, blocksEvent>>

(* _prefetch_blocks: daemon.height() has answered. *)
PfHeight ==
    /\ pf = "height"
    /\ pfHeight' = Height(daemonTip)
    /\ cachedHeight' = Height(daemonTip)
    /\ pf' = "acquire"
    /\ UNCHANGED <<daemonTip, hashes, semaphore, cacheVars, bpOwn, blocksEvent>>

(* How many blocks the next request asks for. *)
RequestCount(at) == Least(pfHeight - at, FetchBlocks)

(* The loop forgets to look at the size of the cache. *)
PrefetchLoop_unbounded(cached, at) ==
    \/ /\ RequestCount(at) <= 0
       /\ pf' = "sleep" /\ semaphore' = FALSE
       /\ UNCHANGED refill
    \/ /\ RequestCount(at) > 0
       /\ pf' = "hashes" /\ semaphore' = TRUE
       /\ UNCHANGED refill

(* refill_event is cleared on both ways out of the loop. *)
PrefetchLoop_always_clears(cached, at) ==
    \/ /\ cached >= CacheBlocks \/ RequestCount(at) <= 0
       /\ refill' = FALSE
       /\ pf' = "sleep" /\ semaphore' = FALSE
    \/ /\ cached < CacheBlocks /\ RequestCount(at) > 0
       /\ pf' = "hashes" /\ semaphore' = TRUE
       /\ UNCHANGED refill

(* The head of the while loop, once cached blocks are queued and the next one
   to fetch is above height at: stop because the cache is full, stop because
   there is nothing to fetch, or ask for more. *)
PrefetchLoop(cached, at) ==
    \/ /\ cached >= CacheBlocks
       /\ refill' = FALSE
       /\ pf' = "refill" /\ semaphore' = FALSE
    \/ /\ cached < CacheBlocks /\ RequestCount(at) <= 0
       /\ pf' = "sleep" /\ semaphore' = FALSE
       /\ UNCHANGED refill
    \/ /\ cached < CacheBlocks /\ RequestCount(at) > 0
       /\ pf' = "hashes" /\ semaphore' = TRUE
       /\ UNCHANGED refill

(* The block processor never holds the semaphore across an await. *)
PfAcquire ==
    /\ pf = "acquire"
    /\ PrefetchLoop(Len(blocks), fetched)
    /\ UNCHANGED <<daemonTip, cachedHeight, pfHeight, hashes, fetched, blocks,
                   bpOwn, blocksEvent>>

PfHashes ==
    /\ pf = "hashes"
    /\ hashes' = Hashes(daemonTip, fetched + 1, RequestCount(fetched))
    /\ pf' = "raw"
    /\ UNCHANGED <<daemonTip, cachedHeight, pfHeight, semaphore, cacheVars,
                   bpOwn, blocksEvent>>

(* The raw blocks have come: queue them, wake the block processor, loop. *)
PfRaw ==
    /\ pf = "raw"
    /\ blocks' = blocks \o hashes
    /\ fetched' = fetched + Len(hashes)
    /\ blocksEvent' = TRUE
    /\ hashes' = <<>>
    /\ PrefetchLoop(Len(blocks) + Len(hashes), fetched + Len(hashes))
    /\ UNCHANGED <<daemonTip, cachedHeight, pfHeight, bpOwn>>

(* main_loop: the polling delay is over.  refill_event is still set. *)
PfSlept ==
    /\ pf = "sleep"
    /\ pf' = "refill"
    /\ UNCHANGED <<daemonTip, cachedHeight, pfHeight, hashes, semaphore,
                   cacheVars, bpOwn, blocksEvent>>

-----------------------------------------------------------------------------
(* BlockProcessor *)

(* _process_blocks: blocks_event is set; ask for the state lock. *)
BpWake ==
    /\ bp = "wait" /\ blocksEvent
    /\ blocksEvent' = FALSE
    /\ bp' = "locked"
    /\ UNCHANGED <<daemonTip, cachedHeight, pfVars, cacheVars, tip, queue, reorg,
                   rangeVars, caughtUp, forceVars, switched>>

(* process_event, no reorg pending: take what is prefetched. *)
TakeBlocks ==
    /\ bp = "locked" /\ reorg = NoReorg
    /\ queue' = blocks
    /\ blocks' = <<>>
    /\ refill' = TRUE
    /\ bp' = "advance"
    /\ UNCHANGED <<daemonTip, cachedHeight, pfVars, fetched, tip, blocksEvent,
                   reorg, rangeVars, caughtUp, forceVars, switched>>

(* _advance_blocks, the next block connects. *)
AdvanceOne ==
    /\ bp = "advance" /\ queue # <<>>
    /\ Parent(Head(queue)) = tip
    /\ tip' = Head(queue)
    /\ queue' = Tail(queue)
    /\ UNCHANGED <<daemonTip, cachedHeight, pfVars, cacheVars, bp, blocksEvent,
                   reorg, rangeVars, caughtUp, forceVars, switched>>

(* _advance_blocks, it does not: schedule a reorg and drop the rest. *)
AdvanceMismatch ==
    /\ bp = "advance" /\ queue # <<>>
    /\ Parent(Head(queue)) # tip
    /\ reorg' = Natural
    /\ blocksEvent' = TRUE
    /\ queue' = <<>>
    /\ bp' = "wait"
    /\ UNCHANGED <<daemonTip, cachedHeight, pfVars, cacheVars, tip, rangeVars,
                   caughtUp, forceVars, switched>>

(* _advance_blocks after the last block: _on_caught_up if at the height the
   daemon last reported. *)
AdvanceDone ==
    /\ bp = "advance" /\ queue = <<>>
    /\ caughtUp' = (caughtUp \/ Height(tip) = cachedHeight)
    /\ bp' = "wait"
    /\ UNCHANGED <<daemonTip, cachedHeight, pfVars, cacheVars, tip, queue,
                   blocksEvent, reorg, rangeVars, forceVars, switched>>

(* process_event, a reorg pending: _reorg_chain up to its first await.  A
   forced one knows its range, a natural one searches for the fork. *)
StartReorg ==
    /\ bp = "locked" /\ reorg # NoReorg
    /\ count' = reorg
    /\ IF reorg = Natural
       THEN bp' = "calc" /\ start' = Height(tip) - 1 /\ window' = 1
       ELSE bp' = "backup" /\ start' = Height(tip) - reorg + 1 /\ window' = reorg
    /\ owed' = (owed /\ reorg = Natural)
    /\ before' = tip
    /\ switched' = (switched /\ reorg # Natural)
    /\ UNCHANGED <<daemonTip, cachedHeight, pfVars, cacheVars, tip, queue,
                   blocksEvent, reorg, caughtUp, forces>>

(* diff_pos counts the first block that differs too. *)
DiffPos_counts_the_difference(ours, theirs) ==
    LET differ == {i \in DOMAIN ours : ours[i] # theirs[i]}
    IN  IF differ = {} THEN Len(ours)
        ELSE CHOOSE i \in differ : \A j \in differ : i <= j

(* diff_pos: how many of the window's blocks the two chains share, from its
   first one on. *)
DiffPos(ours, theirs) ==
    LET differ == {i \in DOMAIN ours : ours[i] # theirs[i]}
    IN  IF differ = {} THEN Len(ours)
        ELSE (CHOOSE i \in differ : \A j \in differ : i <= j) - 1

(* One turn of the loop of _calc_reorg_range: compare our blocks from start on
   with the daemon's; when even the first differs, look at a window twice as
   long below this one. *)
CalcStep ==
    /\ bp = "calc"
    /\ IF start <= 0
       THEN bp' = "backup" /\ UNCHANGED <<start, window>>
       ELSE LET n == DiffPos(Hashes(tip, start, window),
                             Hashes(daemonTip, start, window))
            IN  IF n > 0
                THEN /\ bp' = "backup" /\ start' = start + n
                     /\ UNCHANGED window
                ELSE /\ window' = Least(2 * window, start)
                     /\ start' = start - window'
                     /\ UNCHANGED bp
    /\ UNCHANGED <<daemonTip, cachedHeight, pfVars, cacheVars, tip, queue,
                   blocksEvent, reorg, count, before, caughtUp, forceVars, switched>>

(* _backup_block: undo the tip.  Block 0 is never undone: an assertion stops
   the process. *)
BackupOne ==
    /\ bp = "backup" /\ Height(tip) >= start
    /\ IF tip = Genesis THEN bp' = "dead" /\ UNCHANGED tip
                        ELSE tip' = Parent(tip) /\ UNCHANGED bp
    /\ UNCHANGED <<daemonTip, cachedHeight, pfVars, cacheVars, queue, blocksEvent,
                   reorg, rangeVars, caughtUp, forceVars, switched>>

(* The last block is undone: _reorg_chain calls reset_height. *)
BackupDone ==
    /\ bp = "backup" /\ Height(tip) < start
    /\ bp' = "acquire"
    /\ UNCHANGED <<daemonTip, cachedHeight, pfVars, cacheVars, tip, queue,
                   blocksEvent, reorg, rangeVars, caughtUp, forceVars, switched>>

(* reset_height does not wait for the semaphore. *)
ResetAcquire_unlocked ==
    /\ bp = "acquire"
    /\ blocks' = <<>>
    /\ fetched' = Height(tip)
    /\ refill' = TRUE
    /\ bp' = "reset"
    /\ UNCHANGED <<daemonTip, cachedHeight, pfVars, tip, queue, blocksEvent,
                   reorg, rangeVars, caughtUp, forceVars, switched>>

(* reset_height does not clear the prefetched blocks. *)
ResetAcquire_keeps_blocks ==
    /\ bp = "acquire" /\ ~semaphore
    /\ fetched' = Height(tip)
    /\ refill' = TRUE
    /\ bp' = "reset"
    /\ UNCHANGED <<daemonTip, cachedHeight, pfVars, blocks, tip, queue,
                   blocksEvent, reorg, rangeVars, caughtUp, forceVars, switched>>

(* reset_height: its critical section. *)
ResetAcquire ==
    /\ bp = "acquire" /\ ~semaphore
    /\ blocks' = <<>>
    /\ fetched' = Height(tip)
    /\ refill' = TRUE
    /\ bp' = "reset"
    /\ UNCHANGED <<daemonTip, cachedHeight, pfVars, tip, queue, blocksEvent,
                   reorg, rangeVars, caughtUp, forceVars, switched>>

(* reset_height: daemon.height() has answered; _reorg_chain is done and
   process_event clears reorg_count, whatever it holds by now. *)
ResetDone ==
    /\ bp = "reset"
    /\ cachedHeight' = Height(daemonTip)
    /\ reorg' = NoReorg
    /\ bp' = "wait"
    /\ UNCHANGED <<daemonTip, pfVars, cacheVars, tip, queue, blocksEvent,
                   rangeVars, caughtUp, forceVars, switched>>

(* force_chain_reorg, from the reorg RPC: it answers True. *)
force_chain_reorg(n) ==
    /\ caughtUp /\ bp # "dead" /\ forces < MaxForces
    /\ reorg' = n
    /\ blocksEvent' = TRUE
    /\ forces' = forces + 1
    /\ owed' = TRUE
    /\ UNCHANGED <<daemonTip, cachedHeight, pfVars, cacheVars, bp, tip, queue,
                   rangeVars, caughtUp, switched>>

-----------------------------------------------------------------------------

Init ==
    /\ daemonTip = FirstTip /\ cachedHeight = Height(FirstTip)
    /\ tip \in StartTips
    /\ pf = "refill" /\ pfHeight = 0 /\ hashes = <<>> /\ semaphore = FALSE
    /\ fetched = Height(tip) /\ blocks = <<>> /\ refill = TRUE
    /\ bp = "wait" /\ queue = <<>> /\ blocksEvent = FALSE
    /\ reorg = NoReorg /\ count = NoReorg /\ start = 0 /\ window = 0
    /\ caughtUp = (tip = FirstTip)
    /\ forces = 0 /\ owed = FALSE
    /\ switched = FALSE /\ before = tip

Prefetch == PfWake \/ PfHeight \/ PfAcquire \/ PfHashes \/ PfRaw \/ PfSlept

ProcessBlocks ==
    \/ BpWake \/ TakeBlocks
    \/ AdvanceOne \/ AdvanceMismatch \/ AdvanceDone
    \/ StartReorg \/ CalcStep \/ BackupOne \/ BackupDone
    \/ ResetAcquire \/ ResetDone

Next ==
    \/ Prefetch
    \/ ProcessBlocks
    \/ \E n \in ForcedCounts : force_chain_reorg(n)
    \/ DaemonGrows \/ DaemonSwitches

(* Both tasks run in one event loop that resumes whatever is ready, and the
   daemon answers.  A waiter on the semaphore is served in the order it came,
   so reset_height gets it although the prefetcher takes it again and again. *)
Fairness == WF_vars(Prefetch) /\ WF_vars(ProcessBlocks) /\ SF_vars(ResetAcquire)

Spec == Init /\ [][Next]_vars /\ Fairness

-----------------------------------------------------------------------------
(* Properties *)

(* The type of every variable; the prefetched cache overshoots its limit by
   less than one request (_prefetch_blocks tests the size before each). *)
TypeOK ==
    /\ daemonTip \in Blocks /\ tip \in Blocks /\ before \in Blocks
    /\ {cachedHeight, pfHeight, fetched, window} \subseteq Nat
    /\ start \in Int
    /\ pf \in {"refill", "height", "acquire", "hashes", "raw", "sleep"}
    /\ bp \in {"wait", "locked", "advance", "calc", "backup", "acquire", "reset",
               "dead"}
    /\ {hashes, blocks, queue} \subseteq Seq(Blocks)
    /\ Len(hashes) <= FetchBlocks
    /\ Len(blocks) < CacheBlocks + FetchBlocks
    /\ {reorg, count} \subseteq ForcedCounts \cup {Natural, NoReorg}
    /\ {refill, semaphore, blocksEvent, caughtUp, switched, owed}
           \subseteq BOOLEAN
    /\ forces \in 0 .. MaxForces

(* Whenever no reorg is pending, the blocks being advanced, the prefetched
   ones and the request under way continue one another by height from the tip,
   without a gap or a repetition: reset_height and _prefetch_blocks never leave
   fetched_height out of step with the queue. *)
PrefetchContiguous ==
    (reorg = NoReorg \/ bp = "reset") =>
        LET coming == queue \o blocks \o hashes
        IN  /\ \A i \in DOMAIN coming : Height(coming[i]) = Height(tip) + i
            /\ fetched = Height(tip) + Len(queue) + Len(blocks)

(* A natural reorg that is about to begin has a cause of its own: since the last
   one began, or since the start, the daemon has left the branch it was on.  None
   is begun for blocks that an earlier one should have dropped, for a forced
   reorg, or for a request in flight while the prefetcher is reset. *)
NoSpuriousReorg == reorg = Natural /\ bp \in {"wait", "locked"} => switched

(* A natural reorg during which the daemon stays on its branch undoes the blocks
   above the fork, or the tip alone when the tip is on that branch, and never
   block 0 (_calc_reorg_range's doubling search finds the fork itself). *)
ReorgExact ==
    (count = Natural /\ ~switched /\ bp \in {"acquire", "dead"}) =>
        /\ bp # "dead"
        /\ tip = IF IsPrefix(before, daemonTip) THEN Parent(before)
                 ELSE Fork(before, daemonTip)

(* Once the daemon and the operator are quiet, the index reaches the daemon's
   best block and stays there. *)
Converges == <>[](tip = daemonTip)

(* force_chain_reorg's docstring: it "Returns True if a reorg is queued".  A
   reorg it answered True for is begun or still pending. *)
QueuedReorgRuns == owed => reorg >= 0
=============================================================================
